---- MODULE Spec2Model ----
(***************************************************************************)
(* Token lifecycle and revocation subsystem of the backend:                *)
(*   app/services/jti.py       revocation registry (Redis keys jti:<id>)   *)
(*   app/middleware/auth.py    AuthMiddleware.dispatch, the request gate   *)
(*   app/api/routes/auth.py    refresh, logout, revoke/me, revoke/{jti}    *)
(*   app/api/routes/users.py   update_password_me, user removal            *)
(*                                                                         *)
(* Time is counted in ticks, TicksPerSec ticks to the second, so that the  *)
(* sub-second behaviour of int(exp_ts - now) in revoke_jti is visible.     *)
(* A JWT "exp" is a whole number of seconds.  A Redis entry written with   *)
(* EX ttl at tick t is readable at every tick < t + ttl * TicksPerSec.     *)
(* Every request is one action: the gate, then the route handler if the    *)
(* gate lets the request through.  Whether the store answers is an input   *)
(* of each store call (ups[1] the gate's call, ups[2], ups[3] the          *)
(* handler's calls in order).                                              *)
(***************************************************************************)
EXTENDS Integers, FiniteSets, Sequences, TLC

\* ------------------------------------------------------------------ bounds
TicksPerSec == 2
\* horizons, in seconds, of the specifications
GateMaxSec == 6
SessionMaxSec == 1
RotationMaxSec == 2
CallMaxSec == 3
\* refresh calls that mint a pair, per specification
SessionMaxRefresh == 1
RotationMaxRefresh == 2
\* refresh calls in flight at a time
MaxInflight == 2
\* settings.ACCESS_TOKEN_EXPIRE_MINUTES / REFRESH_TOKEN_EXPIRE_DAYS, scaled to seconds
AccessTTL == 1
RefreshTTL == 2
\* largest ttl_seconds given to revoke_by_jti
MaxAdminTTL == 2
\* settings.OTP_CODE_TTL_SECONDS / OTP_RATE_LIMIT_SECONDS, scaled to seconds
OtpTTL == 2
OtpRateLimit == 1
\* horizon of the one-time-code specifications, and verify_code calls in
\* flight at a time
OtpMaxSec == 2
MaxIssue == 2
IssueMaxSec == 1
MaxVerify == 2
\* logins in one behaviour, and the TTL of an OAuth state (seconds)
MaxLogin == 2
StateTTL == 2
\* store handles created in one behaviour
MaxHandles == 3
\* horizon of the OAuth-state specifications
StateMaxSec == 3

\* the largest jti minted: one login and RotationMaxRefresh refreshes
MaxJti == 2 + 2 * RotationMaxRefresh

\* main.py: app.add_middleware(AuthMiddleware, ..., leeway=5.0)
GateLeeway == 5

\* subject 1 is the first superuser (config.py FIRST_SUPERUSER), subject 2 an
\* ordinary user
Subjects == {1, 2}
Superusers == {1}
Environments == {"local", "staging", "production"}

\* phone numbers, the codes generate_code can draw, and OAuth state values
Phones == {"p1", "p2"}
Codes == {"c1", "c2"}
States == {"s1", "s2"}
Openids == {"o1", "o2"}

VARIABLES
  now,          \* the clock, in ticks (time.time() / datetime.now())
  environment,  \* settings.ENVIRONMENT
  users,        \* the User table: subject -> "active" | "inactive" | "absent"
  issued,       \* every token minted so far
  nextJti,      \* number of jtis generated so far
  jtiStore,     \* the Redis keys jti:<id>: jti -> [perm, at]: permanent, or readable before tick at
  loggedOut,    \* history: the unexpired access tokens for which logout returned 200
  rotated,      \* history: refresh jti -> number of token pairs minted from it
  permanent,    \* history: the jtis for which an entry without TTL was written
  inflight,     \* refresh calls between their is_jti_revoked and their revoke_jti: call -> token
  otpStore,     \* the Redis keys otp:<phone>: phone -> [val, at]: the code, readable before tick at
  rateStore,    \* the Redis keys otp:rate:<phone>: phone -> [val, at]
  wxStore,      \* the Redis keys wxstate:<state>: state -> [val, at]
  verifying,    \* verify_code calls between their redis.get and their redis.delete: call -> [phone, code]
  issuing,      \* issue_code calls between their rate check and their return:
                \* call -> [phone, code, at, stage], at = the tick of the rate check
  validating,   \* validate_state calls between their redis.get and their redis.delete: call -> state
  otpHist,      \* history: phone -> the last successful issue_code (issuedAt, code), kept
                \* for the TTL of its code, and, since then, the number of verify_code
                \* calls that returned True (accepted) and whether one of them deleted
                \* the entry (deleted)
  issueHist,    \* history of the issue_code calls taken await by await: phone -> the
                \* ticks at which the last two calls that succeeded were started
                \* (starts), the call that wrote the code last (writer) and whether that
                \* call has set the rate marker since (marked)
  wxHist,       \* history: generated state -> when it was generated (at), the number of
                \* validate_state calls that returned True (accepted) and whether one of
                \* them deleted the entry (deleted)
  proc,         \* the process: redis = the module global _redis of core/redis.py (0 for
                \* None, else the handle), made = the handles created so far, closed =
                \* the handles whose close() returned, phase = "new" | "up" | "failed" |
                \* "closing" | "down"
  resp,         \* the request answered by the last step and its response
  call          \* the service function called directly by the last step, and its result

otpVars == <<otpStore, rateStore, wxStore, verifying, otpHist>>
vars ==
  <<now, environment, users, issued, nextJti, jtiStore, loggedOut, rotated, permanent, inflight,
    otpStore, rateStore, wxStore, verifying, validating, otpHist, wxHist, proc, resp, call,
    issuing, issueHist>>

\* ------------------------------------------------------------------ tokens
\* A decoded token: sig = the signature verifies under SECRET_KEY; jti, sub
\* and exp are 0 when the payload has no such field; exp is in seconds.
NoToken == [sig |-> FALSE, use |-> "none", jti |-> 0, sub |-> 0, exp |-> 0]

\* security.create_access_token / create_refresh_token (spec 4.1): a signed
\* payload {sub, token_use, jti, exp = now + ttl}; PyJWT writes exp as a whole
\* number of seconds.
CreateToken(sub, use, ttl, jti, t) ==
  [sig |-> TRUE, use |-> use, jti |-> jti, sub |-> sub, exp |-> (t \div TicksPerSec) + ttl]

\* Tokens a client can send besides the issued ones: a forged copy of an
\* issued token (bad signature), and validly signed payloads without jti,
\* without sub and without exp.
OddJti == MaxJti + 1
Forged == {[t EXCEPT !.sig = FALSE] : t \in issued}
Crafted ==
  { [sig |-> TRUE, use |-> "access", jti |-> 0,      sub |-> 1, exp |-> GateMaxSec],
    [sig |-> TRUE, use |-> "access", jti |-> OddJti, sub |-> 0, exp |-> GateMaxSec],
    [sig |-> TRUE, use |-> "access", jti |-> OddJti, sub |-> 1, exp |-> 0] }
Pool == issued \cup Forged \cup Crafted

\* jwt.decode(token, SECRET_KEY, algorithms=[ALGORITHM], leeway=leeway) at tick t:
\* InvalidTokenError for a bad signature, ExpiredSignatureError when
\* exp <= now - leeway, else the payload.
\* The variant reports an expired token as an invalid one.
DecodeLumped(tok, t, leeway) ==
  IF ~tok.sig THEN "invalid"
  ELSE IF tok.exp # 0 /\ tok.exp * TicksPerSec <= t - leeway * TicksPerSec THEN "invalid"
  ELSE "ok"
Decode(tok, t, leeway) ==
  IF ~tok.sig THEN "invalid"
  ELSE IF tok.exp # 0 /\ tok.exp * TicksPerSec <= t - leeway * TicksPerSec THEN "expired"
  ELSE "ok"

\* ------------------------------------------------------- revocation store
\* int(x) for x = n / TicksPerSec seconds: truncation toward zero.
IntSeconds(n) == IF n >= 0 THEN n \div TicksPerSec ELSE 0 - ((0 - n) \div TicksPerSec)

\* is_jti_revoked: redis.get(jti_key(jti)) is not None
IsJtiRevoked(st, jti) == jti \in DOMAIN st

\* redis.set(key, "revoked", ex=ttl) at tick t / redis.set(key, "revoked")
RedisSetEx(st, jti, ttl, t) ==
  [k \in DOMAIN st \cup {jti} |->
     IF k = jti THEN [perm |-> FALSE, at |-> t + ttl * TicksPerSec] ELSE st[k]]
RedisSet(st, jti) ==
  [k \in DOMAIN st \cup {jti} |-> IF k = jti THEN [perm |-> TRUE, at |-> 0] ELSE st[k]]

\* revoke_jti(jti, exp_ts) read at tick t; hasExp = (exp_ts is not None),
\* expTs in ticks.  The result: [ok, store].
Remaining(expTs, t) == IntSeconds(expTs - t)
\* the variant that refuses only a negative remaining lifetime
RevokeJtiStrict(st, jti, hasExp, expTs, t) ==
  IF hasExp
    THEN IF Remaining(expTs, t) < 0
           THEN [ok |-> FALSE, store |-> st]
           ELSE [ok |-> TRUE, store |-> RedisSetEx(st, jti, Remaining(expTs, t), t)]
    ELSE [ok |-> TRUE, store |-> RedisSet(st, jti)]
RevokeJti(st, jti, hasExp, expTs, t) ==
  IF hasExp
    THEN IF Remaining(expTs, t) <= 0
           THEN [ok |-> FALSE, store |-> st]
           ELSE [ok |-> TRUE, store |-> RedisSetEx(st, jti, Remaining(expTs, t), t)]
    ELSE [ok |-> TRUE, store |-> RedisSet(st, jti)]

\* Redis drops a key when its TTL has elapsed.  The variant treats a key
\* without TTL as one whose TTL is zero.
ExpireEvery(st, t) == [k \in {j \in DOMAIN st : st[j].at > t} |-> st[k]]
Expire(st, t) == [k \in {j \in DOMAIN st : st[j].perm \/ st[j].at > t} |-> st[k]]

\* ------------------------------------------------------ keys with a TTL
\* redis.set(k, v, ex=ttl) at tick t, redis.delete(k), and the expiry of
\* the keys otp:<phone>, otp:rate:<phone> and wxstate:<state>.
SetKey(st, k, v, ttl, t) ==
  [x \in DOMAIN st \cup {k} |->
     IF x = k THEN [val |-> v, at |-> t + ttl * TicksPerSec] ELSE st[x]]
DelKey(st, k) == [x \in DOMAIN st \ {k} |-> st[x]]
ExpireKeys(st, t) == [x \in {y \in DOMAIN st : st[y].at > t} |-> st[x]]

\* ------------------------------------------------------------------- paths
\* A path is the tuple of its segments; a trailing "/" is a last segment "".
ApiV1 == <<"api", "v1">>
PathLogin == ApiV1 \o <<"auth", "access-token">>
PathRefresh == ApiV1 \o <<"auth", "refresh">>
PathLogout == ApiV1 \o <<"auth", "logout">>
PathRevokeMe == ApiV1 \o <<"auth", "revoke", "me">>
PathRevokeJti == ApiV1 \o <<"auth", "revoke", "jti">>
PathUsersMe == ApiV1 \o <<"users", "me">>
PathPassword == ApiV1 \o <<"users", "me", "password">>
PathSendCode == ApiV1 \o <<"auth", "phone", "send-code">>
PathPhoneLogin == ApiV1 \o <<"auth", "phone", "login">>
PathWechatAuthorize == ApiV1 \o <<"auth", "wechat", "authorize">>
PathWechatLogin == ApiV1 \o <<"auth", "wechat", "login">>

\* str.startswith on one segment: the pairs (prefix, segment) of distinct
\* segment names of the routes where the first is the beginning of the second.
SegmentPrefixes == {<<"password-recovery", "password-recovery-html-content">>}
SegStartsWith(seg, pre) == pre = "" \/ pre = seg \/ <<pre, seg>> \in SegmentPrefixes

\* path.startswith(p): the segments before p's last are the path's, and the
\* path's next segment starts with p's last.
StartsWith(path, p) ==
  /\ Len(p) >= 1
  /\ Len(path) >= Len(p)
  /\ SubSeq(path, 1, Len(p) - 1) = SubSeq(p, 1, Len(p) - 1)
  /\ SegStartsWith(path[Len(p)], p[Len(p)])

\* middleware/auth.py: builtin_skip_exact
BuiltinSkipExact ==
  { ApiV1 \o <<"auth", "access-token">>,
    ApiV1 \o <<"auth", "reset-password", "">>,
    ApiV1 \o <<"utils", "health-check", "">>,
    ApiV1 \o <<"auth", "refresh">>,
    ApiV1 \o <<"users", "signup">>,
    ApiV1 \o <<"auth", "phone", "send-code">>,
    ApiV1 \o <<"auth", "phone", "login">>,
    ApiV1 \o <<"auth", "wechat", "authorize">>,
    ApiV1 \o <<"auth", "wechat", "callback">> }

\* middleware/auth.py: builtin_skip_prefixes, each ending with "/"
BuiltinSkipPrefixes(env) ==
  { ApiV1 \o <<"auth", "password-recovery", "">>,
    ApiV1 \o <<"auth", "password-recovery-html-content", "">> }
  \cup (IF env = "local" THEN {ApiV1 \o <<"private", "">>} ELSE {})

\* main.py: the skip_paths given to the middleware
SkipPaths ==
  { ApiV1 \o <<"auth", "access-token">>,
    ApiV1 \o <<"auth", "password-recovery">>,
    ApiV1 \o <<"auth", "password-recovery-html-content">>,
    ApiV1 \o <<"auth", "reset-password", "">>,
    ApiV1 \o <<"utils", "health-check", "">> }

\* The variant leaves out the skip_paths given at start-up.
OnAllowListBuiltin(path, env) ==
  \/ path \in BuiltinSkipExact
  \/ \E p \in BuiltinSkipPrefixes(env) : StartsWith(path, p)
  \/ StartsWith(path, <<"docs">>)
  \/ StartsWith(path, <<"redoc">>)
  \/ (Len(path) > 0 /\ path[Len(path)] = "openapi.json")
OnAllowList(path, env) ==
  \/ path \in BuiltinSkipExact
  \/ \E p \in BuiltinSkipPrefixes(env) : StartsWith(path, p)
  \/ StartsWith(path, <<"docs">>)
  \/ StartsWith(path, <<"redoc">>)
  \/ (Len(path) > 0 /\ path[Len(path)] = "openapi.json")
  \/ \E p \in SkipPaths : StartsWith(path, p)

\* ----------------------------------------------------- authorization gate
\* Bearer token from the Authorization header, then the access_token query
\* parameter, then the access_token cookie.
\* The variant looks at the cookie first.
ExtractTokenCookieFirst(req) ==
  IF req.cky # NoToken THEN req.cky
  ELSE IF req.qry # NoToken THEN req.qry
  ELSE req.hdr
ExtractToken(req) ==
  IF req.hdr # NoToken THEN req.hdr
  ELSE IF req.qry # NoToken THEN req.qry
  ELSE req.cky

GateReject(status, detail, store, db) ==
  [pass |-> FALSE, checked |-> TRUE, status |-> status, detail |-> detail, user |-> 0,
   storeCall |-> store, dbCall |-> db]

\* The gate's revocation check: "revoked", "unavailable" (the store did not
\* answer and ENVIRONMENT is not local), or "clear" (not revoked, or the store
\* did not answer in local mode and the check is skipped).
\* Two variants: one skips the check in every mode when the store does not
\* answer, the other never looks a jti up.
GateRevocationFailOpen(jti, up, env, st) ==
  IF up /\ IsJtiRevoked(st, jti) THEN "revoked" ELSE "clear"
GateRevocationOff(jti, up, env, st) ==
  IF ~up /\ env # "local" THEN "unavailable" ELSE "clear"
GateRevocation(jti, up, env, st) ==
  IF up THEN (IF IsJtiRevoked(st, jti) THEN "revoked" ELSE "clear")
  ELSE IF env # "local" THEN "unavailable"
  ELSE "clear"

\* "jti = payload.get('jti'); if not jti"; the variant never finds it missing.
JtiMissingNever(tok) == FALSE
JtiMissing(tok) == tok.jti = 0

\* session.get(User, sub) and user.is_active: "absent", "inactive" or
\* "active"; the variant does not test is_active.
LookupUserAnyState(us, sub) == IF us[sub] = "absent" THEN "absent" ELSE "active"
LookupUser(us, sub) == us[sub]

\* The variant of the gate that asks the store before it tests the expiry.
GateStoreFirst(req, up, t, env, st, us) ==
  IF req.method = "OPTIONS" \/ OnAllowList(req.path, env)
    THEN [pass |-> TRUE, checked |-> FALSE, status |-> 0, detail |-> "", user |-> 0,
          storeCall |-> FALSE, dbCall |-> FALSE]
  ELSE LET tok == ExtractToken(req) IN
    IF tok = NoToken THEN GateReject(401, "Not authenticated", FALSE, FALSE)
    ELSE IF ~tok.sig
      THEN GateReject(403, "Could not validate credentials", FALSE, FALSE)
    ELSE IF JtiMissing(tok) THEN GateReject(401, "Invalid token id", FALSE, FALSE)
    ELSE IF GateRevocation(tok.jti, up, env, st) = "revoked"
      THEN GateReject(401, "Token revoked", TRUE, FALSE)
    ELSE IF GateRevocation(tok.jti, up, env, st) = "unavailable"
      THEN GateReject(503, "Auth service temporarily unavailable", TRUE, FALSE)
    ELSE IF Decode(tok, t, GateLeeway) = "expired"
      THEN GateReject(401, "Token expired", TRUE, FALSE)
    ELSE IF tok.sub = 0 THEN GateReject(401, "Invalid token subject", TRUE, FALSE)
    ELSE IF LookupUser(us, tok.sub) = "absent" THEN GateReject(404, "User not found", TRUE, TRUE)
    ELSE IF LookupUser(us, tok.sub) = "inactive" THEN GateReject(400, "Inactive user", TRUE, TRUE)
    ELSE [pass |-> TRUE, checked |-> TRUE, status |-> 0, detail |-> "", user |-> tok.sub,
          storeCall |-> TRUE, dbCall |-> TRUE]

\* AuthMiddleware.dispatch up to call_next; up = the store answers the
\* gate's is_jti_revoked call.  pass = call_next is invoked; user =
\* request.state.user (0 when not set); checked = the request was not exempt;
\* storeCall, dbCall = the gate called the store, looked the subject up.
Gate(req, up, t, env, st, us) ==
  IF req.method = "OPTIONS" \/ OnAllowList(req.path, env)
    THEN [pass |-> TRUE, checked |-> FALSE, status |-> 0, detail |-> "", user |-> 0,
          storeCall |-> FALSE, dbCall |-> FALSE]
  ELSE LET tok == ExtractToken(req) IN
    IF tok = NoToken THEN GateReject(401, "Not authenticated", FALSE, FALSE)
    ELSE IF Decode(tok, t, GateLeeway) = "expired"
      THEN GateReject(401, "Token expired", FALSE, FALSE)
    ELSE IF Decode(tok, t, GateLeeway) = "invalid"
      THEN GateReject(403, "Could not validate credentials", FALSE, FALSE)
    ELSE IF JtiMissing(tok) THEN GateReject(401, "Invalid token id", FALSE, FALSE)
    ELSE IF GateRevocation(tok.jti, up, env, st) = "revoked"
      THEN GateReject(401, "Token revoked", TRUE, FALSE)
    ELSE IF GateRevocation(tok.jti, up, env, st) = "unavailable"
      THEN GateReject(503, "Auth service temporarily unavailable", TRUE, FALSE)
    ELSE IF tok.sub = 0 THEN GateReject(401, "Invalid token subject", TRUE, FALSE)
    ELSE IF LookupUser(us, tok.sub) = "absent" THEN GateReject(404, "User not found", TRUE, TRUE)
    ELSE IF LookupUser(us, tok.sub) = "inactive" THEN GateReject(400, "Inactive user", TRUE, TRUE)
    ELSE [pass |-> TRUE, checked |-> TRUE, status |-> 0, detail |-> "", user |-> tok.sub,
          storeCall |-> TRUE, dbCall |-> TRUE]

\* ---------------------------------------------------------------- requests
Request(method, path, hdr, qry, cky, rtok) ==
  [method |-> method, path |-> path, hdr |-> hdr, qry |-> qry, cky |-> cky, rtok |-> rtok]

\* The record left in resp by a request step: the request (op, method, the
\* bearer token the gate extracted, the refresh_token cookie, ups), what the
\* gate did (checked = the request was not exempt; handler = call_next was
\* invoked; user = request.state.user, 0 when unset; its store and database
\* calls), and the response (status, detail, minted = the tokens returned).
Response(op, req, ups, g, status, detail, minted) ==
  [op |-> op, req |-> req, method |-> req.method, tok |-> ExtractToken(req),
   rtok |-> req.rtok, ups |-> ups, checked |-> g.checked, handler |-> g.pass, user |-> g.user,
   storeCall |-> g.storeCall, dbCall |-> g.dbCall,
   status |-> status, detail |-> detail, minted |-> minted]

Idle ==
  [op |-> "idle", req |-> Request("", << >>, NoToken, NoToken, NoToken, NoToken),
   method |-> "", tok |-> NoToken, rtok |-> NoToken,
   ups |-> <<TRUE, TRUE, TRUE>>, checked |-> FALSE, handler |-> FALSE, user |-> 0,
   storeCall |-> FALSE, dbCall |-> FALSE,
   status |-> 0, detail |-> "", minted |-> {}]

NoCall ==
  [fn |-> "none", jti |-> 0, hasExp |-> FALSE, expTs |-> 0, phone |-> "", code |-> "",
   old |-> "", state |-> "", openid |-> "", handle |-> 0, up |-> TRUE, at |-> 0, ret |-> FALSE]
NoProc == [redis |-> 0, made |-> 0, closed |-> {}, phase |-> "new"]
NoStarts == [starts |-> <<>>, writer |-> 0, marked |-> TRUE]
NoIssue == [issuedAt |-> 0 - 1, code |-> "", accepted |-> 0, deleted |-> FALSE]

\* A request the gate stopped: its response is the gate's.
Rejected(op, req, ups, g) == Response(op, req, ups, g, g.status, g.detail, {})

AllUp == <<TRUE, TRUE, TRUE>>
Ups1 == {<<b, TRUE, TRUE>> : b \in BOOLEAN}

\* ------------------------------------------------------------------ actions
Init(envs) ==
  /\ now = 0
  /\ environment \in envs
  /\ users = [u \in Subjects |-> "active"]
  /\ issued = {}
  /\ nextJti = 0
  /\ jtiStore = << >>
  /\ loggedOut = {}
  /\ rotated = << >>
  /\ permanent = {}
  /\ inflight = << >>
  /\ otpStore = << >>
  /\ rateStore = << >>
  /\ wxStore = << >>
  /\ verifying = << >>
  /\ issuing = <<>>
  /\ validating = << >>
  /\ otpHist = [p \in Phones |-> NoIssue]
  /\ issueHist = [p \in Phones |-> NoStarts]
  /\ wxHist = << >>
  /\ proc = NoProc
  /\ resp = Idle
  /\ call = NoCall

\* The history keeps an issue until the TTL of its code has elapsed.
Forget(hist, t) ==
  [p \in Phones |->
     IF hist[p].issuedAt >= 0 /\ t >= hist[p].issuedAt + OtpTTL * TicksPerSec
       THEN NoIssue ELSE hist[p]]

\* The history names the writer of a code only while the code is stored.
Unwritten(hist, otp) ==
  [p \in Phones |->
     IF p \in DOMAIN otp THEN hist[p]
     ELSE [hist[p] EXCEPT !.writer = 0, !.marked = TRUE]]

\* No response and no return value is outstanding: the operations are taken
\* one at a time, each handled to its end before the next arrives.
Quiet == resp = Idle /\ call = NoCall

\* The response reaches the client, the return value the caller.
Return ==
  /\ ~Quiet
  /\ resp' = Idle
  /\ call' = NoCall
  /\ UNCHANGED <<now, environment, users, issued, nextJti, jtiStore, loggedOut, rotated, inflight, otpVars, permanent, wxHist, validating, proc, issuing, issueHist>>

Unexpired(toks, t) == {k \in toks : t < k.exp * TicksPerSec}

\* The clock advances by one tick, up to the horizon maxSec; Redis drops the
\* entries whose TTL elapsed.
Tick(maxSec) ==
  /\ Quiet
  /\ now < maxSec * TicksPerSec
  /\ now' = now + 1
  /\ jtiStore' = Expire(jtiStore, now + 1)
  /\ loggedOut' = Unexpired(loggedOut, now + 1)
  /\ otpStore' = ExpireKeys(otpStore, now + 1)
  /\ rateStore' = ExpireKeys(rateStore, now + 1)
  /\ wxStore' = ExpireKeys(wxStore, now + 1)
  /\ otpHist' = Forget(otpHist, now + 1)
  /\ issueHist' = Unwritten(issueHist, ExpireKeys(otpStore, now + 1))
  /\ UNCHANGED <<environment, users, issued, nextJti, rotated, resp, call, inflight,
                 verifying, permanent, wxHist, validating, proc, issuing>>

\* users.py update_user (is_active := False), delete_user, delete_user_me;
\* the one superuser cannot be deleted, by itself or by another.
SetUserStatus(u, s) ==
  /\ Quiet
  /\ users[u] = "active"
  /\ s = "absent" => u \notin Superusers
  /\ users' = [users EXCEPT ![u] = s]
  /\ UNCHANGED <<now, environment, issued, nextJti, jtiStore, loggedOut, rotated, resp, call, inflight, otpVars, permanent, wxHist, validating, proc, issuing, issueHist>>

\* create_access_token(sub, ACCESS ttl) and create_refresh_token(sub, REFRESH ttl)
MintAccess(sub, jti, t) == CreateToken(sub, "access", AccessTTL, jti, t)
MintRefresh(sub, jti, t) == CreateToken(sub, "refresh", RefreshTTL, jti, t)

\* POST /auth/access-token (spec 4.3 Login): valid credentials of an active
\* user give one access and one refresh token, both with fresh jtis; no
\* store write.
PasswordLogin(u) ==
  /\ Quiet
  /\ issued = {}
  /\ now < TicksPerSec
  /\ users[u] = "active"
  /\ LET req == Request("POST", PathLogin, NoToken, NoToken, NoToken, NoToken)
         g == Gate(req, TRUE, now, environment, jtiStore, users)
         pair == {MintAccess(u, nextJti + 1, now), MintRefresh(u, nextJti + 2, now)}
     IN /\ g.pass
        /\ issued' = issued \cup pair
        /\ nextJti' = nextJti + 2
        /\ resp' = Response("login", req, AllUp, g, 200, "", pair)
  /\ UNCHANGED <<now, environment, users, jtiStore, loggedOut, rotated, call, inflight, otpVars, permanent, wxHist, validating, proc, issuing, issueHist>>

\* GET /users/me (read_user_me) or its OPTIONS pre-flight: a protected route
\* whose handler writes nothing.
ReadUserMe(method, tok, ups) ==
  LET req == Request(method, PathUsersMe, tok, NoToken, NoToken, NoToken)
      g == Gate(req, ups[1], now, environment, jtiStore, users)
  IN /\ Quiet
     /\ resp' = IF g.pass THEN Response("read", req, ups, g, 200, "", {})
                ELSE Rejected("read", req, ups, g)
     /\ UNCHANGED <<now, environment, users, issued, nextJti, jtiStore, loggedOut,
                    rotated, call, inflight, otpVars, permanent, wxHist, validating, proc, issuing, issueHist>>

\* A GET or OPTIONS request to any path, the bearer token offered in any of
\* the three places.  Only what the gate does is recorded: a GET writes
\* nothing on any route, and the route's own answer (status 0 here) is not
\* the gate's.
Visit(method, path, hdr, qry, cky, ups) ==
  LET req == Request(method, path, hdr, qry, cky, NoToken)
      g == Gate(req, ups[1], now, environment, jtiStore, users)
  IN /\ Quiet
     /\ resp' = IF g.pass THEN Response("visit", req, ups, g, 0, "", {})
                ELSE Rejected("visit", req, ups, g)
     /\ UNCHANGED <<now, environment, users, issued, nextJti, jtiStore, loggedOut,
                    rotated, call, inflight, otpVars, permanent, wxHist, validating, proc, issuing, issueHist>>

\* The handlers' "decode, then revoke_jti(jti, exp_ts=float(exp))" of one token:
\* [raised, store].  A token that does not decode (without leeway) or has no
\* jti or no exp is left alone (what the caller answers then is the
\* caller's); raised = the store call failed.
Usable(tok, t) == Decode(tok, t, 0) = "ok" /\ tok.jti # 0 /\ tok.exp # 0
\* the variant that calls revoke_jti(jti) without exp_ts
RevokeTokenNoExp(st, tok, t, up) ==
  IF ~Usable(tok, t) THEN [raised |-> FALSE, store |-> st]
  ELSE IF ~up THEN [raised |-> TRUE, store |-> st]
  ELSE [raised |-> FALSE, store |-> RevokeJti(st, tok.jti, FALSE, 0, t).store]
\* the variant that also revokes the token minted next to it
RevokeTokenPair(st, tok, t, up) ==
  IF ~Usable(tok, t) THEN [raised |-> FALSE, store |-> st]
  ELSE IF ~up THEN [raised |-> TRUE, store |-> st]
  ELSE [raised |-> FALSE,
        store |-> RevokeJti(RevokeJti(st, tok.jti, TRUE, tok.exp * TicksPerSec, t).store,
                            tok.jti + 1, TRUE, tok.exp * TicksPerSec, t).store]
RevokeToken(st, tok, t, up) ==
  IF ~Usable(tok, t) THEN [raised |-> FALSE, store |-> st]
  ELSE IF ~up THEN [raised |-> TRUE, store |-> st]
  ELSE [raised |-> FALSE,
        store |-> RevokeJti(st, tok.jti, TRUE, tok.exp * TicksPerSec, t).store]

\* POST /auth/revoke/me (revoke_current_token)
RevokeMeResult(tok, t, st, up) ==
  IF ~Usable(tok, t) THEN [status |-> 400, detail |-> "Invalid token", store |-> st]
  ELSE IF RevokeToken(st, tok, t, up).raised
    THEN [status |-> 500, detail |-> "Internal Server Error", store |-> st]
  ELSE [status |-> 200, detail |-> "Token revoked",
        store |-> RevokeToken(st, tok, t, up).store]

RevokeMe(tok, ups) ==
  LET req == Request("POST", PathRevokeMe, tok, NoToken, NoToken, NoToken)
      g == Gate(req, ups[1], now, environment, jtiStore, users)
      r == RevokeMeResult(tok, now, jtiStore, ups[2])
  IN /\ Quiet
     /\ resp' = IF g.pass THEN Response("revoke_me", req, ups, g, r.status, r.detail, {})
                ELSE Rejected("revoke_me", req, ups, g)
     /\ jtiStore' = IF g.pass THEN r.store ELSE jtiStore
     /\ UNCHANGED <<now, environment, users, issued, nextJti, loggedOut, rotated, call, inflight, otpVars, permanent, wxHist, validating, proc, issuing, issueHist>>

\* POST /auth/logout: the access token's jti is revoked (a failure is the
\* response), then the refresh_token cookie's, whose decoding failure is
\* swallowed.
LogoutResult(tok, rtok, t, st, up2, up3) ==
  LET a == RevokeToken(st, tok, t, up2)
      b == RevokeToken(a.store, rtok, t, up3)
  IN IF ~Usable(tok, t) THEN [status |-> 400, detail |-> "Invalid token", store |-> st]
     ELSE IF a.raised THEN [status |-> 500, detail |-> "Internal Server Error", store |-> st]
     ELSE IF rtok # NoToken /\ b.raised
       THEN [status |-> 500, detail |-> "Internal Server Error", store |-> a.store]
     ELSE [status |-> 200, detail |-> "Logged out",
           store |-> IF rtok # NoToken THEN b.store ELSE a.store]

Logout(tok, rtok, ups) ==
  LET req == Request("POST", PathLogout, tok, NoToken, NoToken, rtok)
      g == Gate(req, ups[1], now, environment, jtiStore, users)
      r == LogoutResult(tok, rtok, now, jtiStore, ups[2], ups[3])
  IN /\ Quiet
     /\ resp' = IF g.pass THEN Response("logout", req, ups, g, r.status, r.detail, {})
                ELSE Rejected("logout", req, ups, g)
     /\ jtiStore' = IF g.pass THEN r.store ELSE jtiStore
     /\ loggedOut' = IF g.pass /\ r.status = 200 THEN loggedOut \cup {tok} ELSE loggedOut
     /\ UNCHANGED <<now, environment, users, issued, nextJti, rotated, call, inflight, otpVars, permanent, wxHist, validating, proc, issuing, issueHist>>

\* PATCH /users/me/password (update_password_me); pw = "wrong" | "same" | "ok"
\* is what verify_password and the comparison of the two passwords give.
\* Decoding failures of either token are swallowed.
PasswordResult(tok, rtok, pw, t, st, up2, up3) ==
  LET a == RevokeToken(st, tok, t, up2)
      b == RevokeToken(a.store, rtok, t, up3)
  IN IF pw = "wrong" THEN [status |-> 400, detail |-> "Incorrect password", store |-> st]
     ELSE IF pw = "same"
       THEN [status |-> 400, detail |-> "New password cannot be the same as the current one",
             store |-> st]
     ELSE IF a.raised THEN [status |-> 500, detail |-> "Internal Server Error", store |-> st]
     ELSE IF rtok # NoToken /\ b.raised
       THEN [status |-> 500, detail |-> "Internal Server Error", store |-> a.store]
     ELSE [status |-> 200, detail |-> "Password updated successfully. Please log in again.",
           store |-> IF rtok # NoToken THEN b.store ELSE a.store]

UpdatePasswordMe(tok, rtok, pw, ups) ==
  LET req == Request("PATCH", PathPassword, tok, NoToken, NoToken, rtok)
      g == Gate(req, ups[1], now, environment, jtiStore, users)
      r == PasswordResult(tok, rtok, pw, now, jtiStore, ups[2], ups[3])
  IN /\ Quiet
     /\ resp' = IF g.pass THEN Response("password", req, ups, g, r.status, r.detail, {})
                ELSE Rejected("password", req, ups, g)
     /\ jtiStore' = IF g.pass THEN r.store ELSE jtiStore
     /\ UNCHANGED <<now, environment, users, issued, nextJti, loggedOut, rotated, call, inflight, otpVars, permanent, wxHist, validating, proc, issuing, issueHist>>

\* POST /auth/refresh (refresh_token): the path is on the gate's allow-list.
\* The outcome of the handler for the refresh_token cookie rtok:
\* [status, detail, mint, store]; mint = a new pair is minted and returned.
\* The variant does not look the jti up.
RefreshResultUnchecked(rtok, t, st, up2, up3) ==
  LET fail(status, detail) ==
        [status |-> status, detail |-> detail, mint |-> FALSE, store |-> st]
  IN IF rtok = NoToken THEN fail(401, "Missing refresh token")
     ELSE IF Decode(rtok, t, 0) # "ok" THEN fail(400, "Invalid token")
     ELSE IF rtok.use # "refresh" THEN fail(400, "Invalid token type")
     ELSE IF rtok.jti = 0 \/ rtok.exp = 0 \/ rtok.sub = 0 THEN fail(400, "Invalid token")
     ELSE IF ~up3 THEN fail(500, "Internal Server Error")
     ELSE [status |-> 200, detail |-> "", mint |-> TRUE,
           store |-> RevokeJti(st, rtok.jti, TRUE, rtok.exp * TicksPerSec, t).store]
RefreshResult(rtok, t, st, up2, up3) ==
  LET fail(status, detail) ==
        [status |-> status, detail |-> detail, mint |-> FALSE, store |-> st]
  IN IF rtok = NoToken THEN fail(401, "Missing refresh token")
     ELSE IF Decode(rtok, t, 0) # "ok" THEN fail(400, "Invalid token")
     ELSE IF rtok.use # "refresh" THEN fail(400, "Invalid token type")
     ELSE IF rtok.jti = 0 \/ rtok.exp = 0 \/ rtok.sub = 0 THEN fail(400, "Invalid token")
     ELSE IF ~up2 THEN fail(500, "Internal Server Error")
     ELSE IF IsJtiRevoked(st, rtok.jti) THEN fail(401, "Token revoked")
     ELSE IF ~up3 THEN fail(500, "Internal Server Error")
     ELSE [status |-> 200, detail |-> "", mint |-> TRUE,
           store |-> RevokeJti(st, rtok.jti, TRUE, rtok.exp * TicksPerSec, t).store]

Count(f, j) == IF j \in DOMAIN f THEN f[j] ELSE 0
Bump(f, j) == [k \in DOMAIN f \cup {j} |-> IF k = j THEN Count(f, j) + 1 ELSE f[k]]

Refresh(rtok, ups, maxRefresh) ==
  LET req == Request("POST", PathRefresh, NoToken, NoToken, NoToken, rtok)
      g == Gate(req, ups[1], now, environment, jtiStore, users)
      r == RefreshResult(rtok, now, jtiStore, ups[2], ups[3])
      pair == {MintAccess(rtok.sub, nextJti + 1, now), MintRefresh(rtok.sub, nextJti + 2, now)}
  IN /\ Quiet
     /\ g.pass
     /\ r.mint => nextJti < 2 + 2 * maxRefresh
     /\ resp' = Response("refresh", req, ups, g, r.status, r.detail,
                         IF r.mint THEN pair ELSE {})
     /\ jtiStore' = r.store
     /\ issued' = IF r.mint THEN issued \cup pair ELSE issued
     /\ nextJti' = IF r.mint THEN nextJti + 2 ELSE nextJti
     /\ rotated' = IF r.mint THEN Bump(rotated, rtok.jti) ELSE rotated
     /\ UNCHANGED <<now, environment, users, loggedOut, call, inflight, otpVars, permanent, wxHist, validating, proc, issuing, issueHist>>

\* refresh_token taken in two steps, as the event loop may run it: it yields at
\* "await is_jti_revoked(jti)" and at "await revoke_jti(jti, ...)", and other
\* requests run in between.  RefreshBegin is the handler up to the answer of
\* is_jti_revoked: a call that fails by then is answered at once, a call that
\* passes is in flight.  RefreshFinish is the rest: the new access token,
\* revoke_jti, the new refresh token, the response.
\* The variant looks the jti up once more before it revokes.
RefreshRotateCheckAndSet(rtok, t, st, up3) ==
  IF ~up3 THEN [status |-> 500, detail |-> "Internal Server Error", mint |-> FALSE, store |-> st]
  ELSE IF IsJtiRevoked(st, rtok.jti)
    THEN [status |-> 401, detail |-> "Token revoked", mint |-> FALSE, store |-> st]
  ELSE [status |-> 200, detail |-> "", mint |-> TRUE,
        store |-> RevokeJti(st, rtok.jti, TRUE, rtok.exp * TicksPerSec, t).store]
RefreshRotate(rtok, t, st, up3) ==
  IF ~up3 THEN [status |-> 500, detail |-> "Internal Server Error", mint |-> FALSE, store |-> st]
  ELSE [status |-> 200, detail |-> "", mint |-> TRUE,
        store |-> RevokeJti(st, rtok.jti, TRUE, rtok.exp * TicksPerSec, t).store]

Calls == 1..MaxInflight

RefreshBegin(c, rtok, up2) ==
  LET req == Request("POST", PathRefresh, NoToken, NoToken, NoToken, rtok)
      g == Gate(req, TRUE, now, environment, jtiStore, users)
      r == RefreshResult(rtok, now, jtiStore, up2, TRUE)
  IN /\ Quiet
     /\ c \notin DOMAIN inflight
     /\ g.pass
     /\ inflight' = IF r.mint THEN [k \in DOMAIN inflight \cup {c} |->
                                      IF k = c THEN rtok ELSE inflight[k]]
                     ELSE inflight
     /\ resp' = IF r.mint THEN resp
                ELSE Response("refresh", req, <<TRUE, up2, TRUE>>, g, r.status, r.detail, {})
     /\ UNCHANGED <<now, environment, users, issued, nextJti, jtiStore, loggedOut, rotated,
                    call, otpVars, permanent, wxHist, validating, proc, issuing, issueHist>>

RefreshFinish(c, up3, maxRefresh) ==
  LET rtok == inflight[c]
      req == Request("POST", PathRefresh, NoToken, NoToken, NoToken, rtok)
      g == Gate(req, TRUE, now, environment, jtiStore, users)
      r == RefreshRotate(rtok, now, jtiStore, up3)
      pair == {MintAccess(rtok.sub, nextJti + 1, now), MintRefresh(rtok.sub, nextJti + 2, now)}
  IN /\ Quiet
     /\ c \in DOMAIN inflight
     /\ r.mint => nextJti < 2 + 2 * maxRefresh
     /\ inflight' = [k \in DOMAIN inflight \ {c} |-> inflight[k]]
     /\ resp' = Response("refresh", req, <<TRUE, TRUE, up3>>, g, r.status, r.detail,
                         IF r.mint THEN pair ELSE {})
     /\ jtiStore' = r.store
     /\ issued' = IF r.mint THEN issued \cup pair ELSE issued
     /\ nextJti' = IF r.mint THEN nextJti + 2 ELSE nextJti
     /\ rotated' = IF r.mint THEN Bump(rotated, rtok.jti) ELSE rotated
     /\ UNCHANGED <<now, environment, users, loggedOut, call, otpVars, permanent, wxHist, validating, proc, issuing, issueHist>>

\* POST /auth/revoke/{jti} (revoke_by_jti), superuser only.  ttl = ttl_seconds,
\* 0 for None (and for 0: "if ttl_seconds and ttl_seconds > 0").  The handler
\* reads the clock (exp_ts = time.time() + ttl_seconds) and revoke_jti reads
\* it again, lag ticks later.
AdminRevokeResult(jti, ttl, t, lag, st, up) ==
  IF ~up THEN [status |-> 500, detail |-> "Internal Server Error", store |-> st]
  ELSE [status |-> 200, detail |-> "Token revoked by jti",
        store |-> RevokeJti(Expire(st, t + lag), jti, ttl > 0, t + ttl * TicksPerSec,
                            t + lag).store]

RevokeByJti(tok, jti, ttl, lag, ups, maxSec) ==
  LET req == Request("POST", PathRevokeJti, tok, NoToken, NoToken, NoToken)
      g == Gate(req, ups[1], now, environment, jtiStore, users)
      r == AdminRevokeResult(jti, ttl, now, lag, jtiStore, ups[2])
      super == g.pass /\ g.user \in Superusers
  IN /\ Quiet
     /\ now + lag <= maxSec * TicksPerSec
     /\ lag > 0 => super /\ ups[2]
     /\ resp' = IF ~g.pass THEN Rejected("revoke_jti", req, ups, g)
                ELSE IF ~super
                  THEN Response("revoke_jti", req, ups, g, 403,
                                "The user doesn't have enough privileges", {})
                ELSE Response("revoke_jti", req, ups, g, r.status, r.detail, {})
     /\ jtiStore' = IF super THEN r.store ELSE jtiStore
     /\ permanent' = IF super /\ ups[2] /\ ttl = 0 THEN permanent \cup {jti} ELSE permanent
     /\ now' = now + lag
     /\ loggedOut' = Unexpired(loggedOut, now + lag)
     /\ UNCHANGED <<environment, users, issued, nextJti, rotated, call, inflight, otpVars, wxHist, validating, proc, issuing, issueHist>>

\* Direct calls of the service functions of app/services/jti.py.
CallRevokeJti(jti, hasExp, expTs) ==
  LET r == RevokeJti(jtiStore, jti, hasExp, expTs, now)
  IN /\ Quiet
     /\ call' = [NoCall EXCEPT !.fn = "revoke_jti", !.jti = jti, !.hasExp = hasExp,
                                !.expTs = IF hasExp THEN expTs ELSE 0, !.at = now,
                                !.ret = r.ok]
     /\ jtiStore' = r.store
     /\ permanent' = IF hasExp THEN permanent ELSE permanent \cup {jti}
     /\ UNCHANGED <<now, environment, users, issued, nextJti, loggedOut, rotated, resp, inflight, otpVars, wxHist, validating, proc, issuing, issueHist>>

CallIsJtiRevoked(jti) ==
  /\ Quiet
  /\ call' = [NoCall EXCEPT !.fn = "is_jti_revoked", !.jti = jti, !.at = now,
                             !.ret = IsJtiRevoked(jtiStore, jti)]
  /\ UNCHANGED <<now, environment, users, issued, nextJti, jtiStore, loggedOut, rotated, resp, inflight, otpVars, permanent, wxHist, validating, proc, issuing, issueHist>>

\* ---------------------------------------------------------- one-time codes
\* issue_code(phone, ...) at tick t, code = what generate_code drew:
\* [ok, otp, rate]; ok = FALSE is RuntimeError("Rate limited").  The first
\* variant does not look at the rate marker, the second leaves a code that is
\* still stored in place.
StoredCode(phone, otp) == IF phone \in DOMAIN otp THEN otp[phone].val ELSE ""
IssueCodeKeepingOld(phone, code, t, otp, rate) ==
  IF phone \in DOMAIN rate
    THEN [ok |-> FALSE, otp |-> otp, rate |-> rate]
    ELSE [ok |-> TRUE,
          otp |-> IF phone \in DOMAIN otp THEN otp ELSE SetKey(otp, phone, code, OtpTTL, t),
          rate |-> SetKey(rate, phone, "1", OtpRateLimit, t)]
IssueCodeNoLimit(phone, code, t, otp, rate) ==
  [ok |-> TRUE, otp |-> SetKey(otp, phone, code, OtpTTL, t),
   rate |-> SetKey(rate, phone, "1", OtpRateLimit, t)]
IssueCode(phone, code, t, otp, rate) ==
  IF phone \in DOMAIN rate
    THEN [ok |-> FALSE, otp |-> otp, rate |-> rate]
    ELSE [ok |-> TRUE, otp |-> SetKey(otp, phone, code, OtpTTL, t),
          rate |-> SetKey(rate, phone, "1", OtpRateLimit, t)]

\* POST /auth/phone/send-code (send_phone_code): the path is on the gate's
\* allow-list; send_login_code swallows its own errors; in local mode the
\* answer echoes the code.
SendPhoneCode(phone, code) ==
  LET req == Request("POST", PathSendCode, NoToken, NoToken, NoToken, NoToken)
      g == Gate(req, TRUE, now, environment, jtiStore, users)
      r == IssueCode(phone, code, now, otpStore, rateStore)
  IN /\ Quiet
     /\ g.pass
     /\ resp' = IF ~r.ok THEN Response("send_code", req, AllUp, g, 429, "Too many requests", {})
                ELSE IF environment = "local"
                  THEN Response("send_code", req, AllUp, g, 200,
                                "Verification code sent: <code>", {})
                ELSE Response("send_code", req, AllUp, g, 200, "Verification code sent", {})
     /\ call' = [NoCall EXCEPT !.fn = "issue_code", !.phone = phone, !.code = code,
                                !.old = StoredCode(phone, otpStore),
                                !.at = now, !.ret = r.ok]
     /\ otpStore' = r.otp
     /\ rateStore' = r.rate
     /\ otpHist' = IF r.ok
                     THEN [otpHist EXCEPT ![phone] = [NoIssue EXCEPT !.issuedAt = now,
                                                                     !.code = code]]
                     ELSE otpHist
     /\ UNCHANGED <<now, environment, users, issued, nextJti, jtiStore, loggedOut, rotated,
                    inflight, wxStore, verifying, permanent, wxHist, validating, proc, issuing, issueHist>>

\* verify_code(phone, code): stored = redis.get; "if not stored: return
\* False"; compare_digest; on a match redis.delete and "finally: return
\* True", whether or not the delete raised (up = it did not).
\* [ret, otp].  The variant returns True without deleting.
VerifyMatch(phone, code, otp) == phone \in DOMAIN otp /\ otp[phone].val = code
VerifyDelete(phone, otp, up) == IF up THEN DelKey(otp, phone) ELSE otp
VerifyCodeKeeping(phone, code, otp, up) ==
  [ret |-> VerifyMatch(phone, code, otp), otp |-> otp]
VerifyCode(phone, code, otp, up) ==
  IF VerifyMatch(phone, code, otp)
    THEN [ret |-> TRUE, otp |-> VerifyDelete(phone, otp, up)]
    ELSE [ret |-> FALSE, otp |-> otp]

\* the history after a verify_code call on phone that returned True (the
\* count stops at MaxVerify)
Accept(hist, phone, up) ==
  [hist EXCEPT ![phone].accepted = IF @ < MaxVerify THEN @ + 1 ELSE @,
               ![phone].deleted = @ \/ up]

\* verify_code called on its own, from its get to its return
CallVerifyCode(phone, code, up) ==
  LET r == VerifyCode(phone, code, otpStore, up)
  IN /\ Quiet
     /\ call' = [NoCall EXCEPT !.fn = "verify_code", !.phone = phone, !.code = code,
                                !.up = up, !.at = now, !.ret = r.ret]
     /\ otpStore' = r.otp
     /\ otpHist' = IF r.ret THEN Accept(otpHist, phone, up) ELSE otpHist
     /\ UNCHANGED <<now, environment, users, issued, nextJti, jtiStore, loggedOut, rotated,
                    inflight, rateStore, wxStore, verifying, resp, permanent, wxHist, validating, proc, issuing, issueHist>>

\* verify_code calls that interleave at their awaits: from the call to the
\* return of redis.get (a call that finds no match returns False there) ...
Verifiers == 1..MaxVerify
VerifyBegin(c, phone, code) ==
  /\ Quiet
  /\ c \notin DOMAIN verifying
  /\ IF VerifyMatch(phone, code, otpStore)
       THEN /\ verifying' = [x \in DOMAIN verifying \cup {c} |->
                               IF x = c THEN [phone |-> phone, code |-> code]
                               ELSE verifying[x]]
            /\ call' = call
       ELSE /\ verifying' = verifying
            /\ call' = [NoCall EXCEPT !.fn = "verify_code", !.phone = phone, !.code = code,
                                       !.at = now]
  /\ UNCHANGED <<now, environment, users, issued, nextJti, jtiStore, loggedOut, rotated,
                 inflight, otpStore, rateStore, wxStore, otpHist, resp, permanent, wxHist, validating, proc, issuing, issueHist>>

\* ... and from there through redis.delete to "return True".
VerifyFinish(c, up) ==
  /\ Quiet
  /\ c \in DOMAIN verifying
  /\ LET v == verifying[c]
     IN /\ otpStore' = VerifyDelete(v.phone, otpStore, up)
        /\ call' = [NoCall EXCEPT !.fn = "verify_code", !.phone = v.phone, !.code = v.code,
                                   !.up = up, !.at = now, !.ret = TRUE]
        /\ otpHist' = Accept(otpHist, v.phone, up)
  /\ verifying' = [x \in DOMAIN verifying \ {c} |-> verifying[x]]
  /\ UNCHANGED <<now, environment, users, issued, nextJti, jtiStore, loggedOut, rotated,
                 inflight, rateStore, wxStore, resp, permanent, wxHist, validating, proc, issuing, issueHist>>

\* issue_code calls that interleave at their awaits: from the call to the
\* return of redis.get on the rate key (a call that finds the marker raises
\* "Rate limited" there) ...
Issuers == 1..MaxIssue
IssueBegin(c, phone, code) ==
  /\ Quiet
  /\ c \notin DOMAIN issuing
  /\ IF phone \in DOMAIN rateStore
       THEN /\ issuing' = issuing
            /\ call' = [NoCall EXCEPT !.fn = "issue_code", !.phone = phone, !.code = code,
                                       !.old = StoredCode(phone, otpStore),
                                       !.at = now, !.ret = FALSE]
       ELSE /\ issuing' = [x \in DOMAIN issuing \cup {c} |->
                             IF x = c THEN [phone |-> phone, code |-> code, at |-> now,
                                            stage |-> "checked"]
                             ELSE issuing[x]]
            /\ call' = call
  /\ UNCHANGED <<now, environment, users, issued, nextJti, jtiStore, loggedOut, rotated,
                 inflight, otpStore, rateStore, wxStore, verifying, otpHist, resp, permanent,
                 wxHist, validating, proc, issueHist>>

\* ... from there to the return of redis.set on the code key ...
IssueStore(c) ==
  /\ Quiet
  /\ c \in DOMAIN issuing
  /\ issuing[c].stage = "checked"
  /\ LET i == issuing[c]
     IN /\ otpStore' = SetKey(otpStore, i.phone, i.code, OtpTTL, now)
        /\ issueHist' = [issueHist EXCEPT ![i.phone].writer = c, ![i.phone].marked = FALSE]
  /\ issuing' = [issuing EXCEPT ![c].stage = "stored"]
  /\ UNCHANGED <<now, environment, users, issued, nextJti, jtiStore, loggedOut, rotated,
                 inflight, rateStore, wxStore, verifying, otpHist, resp, call, permanent,
                 wxHist, validating, proc>>

\* ... and from there through redis.set on the rate key to "return code".
LastTwo(starts, at) ==
  IF Len(starts) < 2 THEN Append(starts, at) ELSE <<starts[2], at>>
IssueFinish(c) ==
  /\ Quiet
  /\ c \in DOMAIN issuing
  /\ issuing[c].stage = "stored"
  /\ LET i == issuing[c]
     IN /\ rateStore' = SetKey(rateStore, i.phone, "1", OtpRateLimit, now)
        /\ call' = [NoCall EXCEPT !.fn = "issue_code", !.phone = i.phone, !.code = i.code,
                                   !.at = i.at, !.ret = TRUE]
        /\ issueHist' = [issueHist EXCEPT
                           ![i.phone].starts = LastTwo(@, i.at),
                           ![i.phone].marked = @ \/ issueHist[i.phone].writer = c]
  /\ issuing' = [x \in DOMAIN issuing \ {c} |-> issuing[x]]
  /\ UNCHANGED <<now, environment, users, issued, nextJti, jtiStore, loggedOut, rotated,
                 inflight, otpStore, wxStore, verifying, otpHist, resp, permanent,
                 wxHist, validating, proc>>

\* ------------------------------------------------------------ OAuth states
\* generate_state(): state = secrets.token_urlsafe(16), a value never drawn
\* before; redis.set("wxstate:<state>", "1", ex=STATE_TTL_SECONDS).
GenerateState(state, wx, t) == SetKey(wx, state, "1", StateTTL, t)
Generated(hist, state, t) ==
  [x \in DOMAIN hist \cup {state} |->
     IF x = state THEN [at |-> t, accepted |-> 0, deleted |-> FALSE] ELSE hist[x]]

\* validate_state(state): redis.get; False when the key is missing; else
\* redis.delete with its exception swallowed (up = it did not raise), True.
\* [ret, wx].  The variant returns True without deleting.
ValidateStateKeeping(state, wx, up) == [ret |-> state \in DOMAIN wx, wx |-> wx]
ValidateState(state, wx, up) ==
  IF state \in DOMAIN wx
    THEN [ret |-> TRUE, wx |-> IF up THEN DelKey(wx, state) ELSE wx]
    ELSE [ret |-> FALSE, wx |-> wx]

\* the history after a validate_state call on state that returned True (the
\* count stops at MaxVerify; a state never generated has no history)
Validated(hist, state, up) ==
  [x \in DOMAIN hist |->
     IF x = state
       THEN [hist[x] EXCEPT !.accepted = IF @ < MaxVerify THEN @ + 1 ELSE @,
                            !.deleted = @ \/ up]
       ELSE hist[x]]

\* generate_state and validate_state called on their own
CallGenerateState(state) ==
  /\ Quiet
  /\ state \notin DOMAIN wxHist
  /\ wxStore' = GenerateState(state, wxStore, now)
  /\ wxHist' = Generated(wxHist, state, now)
  /\ call' = [NoCall EXCEPT !.fn = "generate_state", !.state = state, !.at = now, !.ret = TRUE]
  /\ UNCHANGED <<now, environment, users, issued, nextJti, jtiStore, loggedOut, rotated,
                 permanent, inflight, otpStore, rateStore, verifying, validating, otpHist, resp, proc, issuing, issueHist>>

CallValidateState(state, up) ==
  LET r == ValidateState(state, wxStore, up)
  IN /\ Quiet
     /\ wxStore' = r.wx
     /\ wxHist' = IF r.ret THEN Validated(wxHist, state, up) ELSE wxHist
     /\ call' = [NoCall EXCEPT !.fn = "validate_state", !.state = state, !.up = up,
                                !.at = now, !.ret = r.ret]
     /\ UNCHANGED <<now, environment, users, issued, nextJti, jtiStore, loggedOut, rotated,
                    permanent, inflight, otpStore, rateStore, verifying, validating, otpHist,
                    resp, proc, issuing, issueHist>>

\* validate_state calls that interleave at their awaits: from the call to the
\* return of redis.get (a call that finds no key returns False there) ...
ValidateBegin(c, state) ==
  /\ Quiet
  /\ c \notin DOMAIN validating
  /\ IF state \in DOMAIN wxStore
       THEN /\ validating' = [x \in DOMAIN validating \cup {c} |->
                                IF x = c THEN state ELSE validating[x]]
            /\ call' = call
       ELSE /\ validating' = validating
            /\ call' = [NoCall EXCEPT !.fn = "validate_state", !.state = state, !.at = now]
  /\ UNCHANGED <<now, environment, users, issued, nextJti, jtiStore, loggedOut, rotated,
                 permanent, inflight, otpStore, rateStore, wxStore, verifying, otpHist, wxHist,
                 resp, proc, issuing, issueHist>>

\* ... and from there through redis.delete to "return True".
ValidateFinish(c, up) ==
  /\ Quiet
  /\ c \in DOMAIN validating
  /\ wxStore' = IF up THEN DelKey(wxStore, validating[c]) ELSE wxStore
  /\ wxHist' = Validated(wxHist, validating[c], up)
  /\ call' = [NoCall EXCEPT !.fn = "validate_state", !.state = validating[c], !.up = up,
                             !.at = now, !.ret = TRUE]
  /\ validating' = [x \in DOMAIN validating \ {c} |-> validating[x]]
  /\ UNCHANGED <<now, environment, users, issued, nextJti, jtiStore, loggedOut, rotated,
                 permanent, inflight, otpStore, rateStore, verifying, otpHist, resp, proc, issuing, issueHist>>

\* ------------------------------------------------------- the store handle
\* get_redis(): "if _redis is None: _redis = Redis.from_url(...)", then
\* "return _redis"; the function has no await, so it runs to its end.
\* [handle, proc]
GetRedis(p) ==
  IF p.redis = 0
    THEN [handle |-> p.made + 1, proc |-> [p EXCEPT !.redis = p.made + 1, !.made = p.made + 1]]
    ELSE [handle |-> p.redis, proc |-> p]

\* init_redis(), the startup handler: get_redis and ping inside a try; the
\* exception of an unreachable store is raised again unless ENVIRONMENT is
\* "local".  [raised, proc]
InitRedis(p, reachable, env) ==
  LET raised == ~reachable /\ env # "local"
  IN [raised |-> raised,
      proc |-> [GetRedis(p).proc EXCEPT !.phase = IF raised THEN "failed" ELSE "up"]]

\* close_redis(), the shutdown handler, from "await _redis.close()" on: the
\* finally clause sets _redis = None whether or not close() raised.
\* The variant sets it only after a close() that returned.
CloseRedisNoFinally(p, raises) ==
  IF raises THEN [p EXCEPT !.phase = "down"]
  ELSE [p EXCEPT !.redis = 0, !.closed = @ \cup {p.redis}, !.phase = "down"]
CloseRedis(p, raises) ==
  [p EXCEPT !.redis = 0, !.closed = IF raises THEN @ ELSE @ \cup {p.redis}, !.phase = "down"]

\* The application starts (again, after a shutdown, as under a test client).
Startup(reachable) ==
  LET r == InitRedis(proc, reachable, environment)
  IN /\ Quiet
     /\ proc.phase \in {"new", "down"}
     /\ proc.redis = 0 => proc.made < MaxHandles
     /\ proc' = r.proc
     /\ call' = [NoCall EXCEPT !.fn = "init_redis", !.up = reachable, !.at = now,
                                !.handle = r.proc.redis, !.ret = ~r.raised]
     /\ UNCHANGED <<now, environment, users, issued, nextJti, jtiStore, loggedOut, rotated,
                    permanent, inflight, otpStore, rateStore, wxStore, verifying, validating,
                    otpHist, wxHist, resp, issuing, issueHist>>

\* A request handler or service function asks for the handle.
UseRedis ==
  LET r == GetRedis(proc)
  IN /\ Quiet
     /\ proc.phase # "failed"
     /\ proc.redis = 0 => proc.made < MaxHandles
     /\ proc' = r.proc
     /\ call' = [NoCall EXCEPT !.fn = "get_redis", !.at = now, !.handle = r.handle,
                                !.ret = TRUE]
     /\ UNCHANGED <<now, environment, users, issued, nextJti, jtiStore, loggedOut, rotated,
                    permanent, inflight, otpStore, rateStore, wxStore, verifying, validating,
                    otpHist, wxHist, resp, issuing, issueHist>>

\* The application shuts down: close_redis up to its await (nothing to do
\* when _redis is None) ...
ShutdownBegin ==
  /\ Quiet
  /\ proc.phase = "up"
  /\ proc' = [proc EXCEPT !.phase = IF proc.redis = 0 THEN "down" ELSE "closing"]
  /\ call' = IF proc.redis = 0
               THEN [NoCall EXCEPT !.fn = "close_redis", !.at = now, !.ret = TRUE]
               ELSE call
  /\ UNCHANGED <<now, environment, users, issued, nextJti, jtiStore, loggedOut, rotated,
                 permanent, inflight, otpStore, rateStore, wxStore, verifying, validating,
                 otpHist, wxHist, resp, issuing, issueHist>>

\* ... and from the return of close(), or its exception, to the end.
ShutdownFinish(raises) ==
  /\ Quiet
  /\ proc.phase = "closing"
  /\ proc' = CloseRedis(proc, raises)
  /\ call' = [NoCall EXCEPT !.fn = "close_redis", !.at = now, !.handle = proc.redis,
                             !.ret = ~raises]
  /\ UNCHANGED <<now, environment, users, issued, nextJti, jtiStore, loggedOut, rotated,
                 permanent, inflight, otpStore, rateStore, wxStore, verifying, validating,
                 otpHist, wxHist, resp, issuing, issueHist>>

\* ------------------------------------------------------------------ logins
\* crud.get_user_by_phone / crud.get_user_by_wechat_openid: the subject a
\* phone number or an openid belongs to; users[] says whether that user
\* exists yet and is active.
Owner(id) == IF id \in {"p1", "o1"} THEN 1 ELSE 2

\* The user part of phone_login and wechat_callback: a number or openid with
\* no user gets one created (createOk = crud.create_user and the commit went
\* through; a new user is active); an inactive user is refused.
\* [status, detail, users].  The variant does not test is_active.
LoginUserUnchecked(us, sub, createOk, failure) ==
  IF us[sub] = "absent" /\ ~createOk
    THEN [status |-> 500, detail |-> failure, users |-> us]
  ELSE [status |-> 200, detail |-> "",
        users |-> IF us[sub] = "absent" THEN [us EXCEPT ![sub] = "active"] ELSE us]
LoginUser(us, sub, createOk, failure) ==
  IF us[sub] = "absent" /\ ~createOk
    THEN [status |-> 500, detail |-> failure, users |-> us]
  ELSE IF us[sub] = "inactive"
    THEN [status |-> 400, detail |-> "Inactive user", users |-> us]
  ELSE [status |-> 200, detail |-> "", users |-> [us EXCEPT ![sub] = "active"]]

\* The end of both handlers: create_access_token and create_refresh_token
\* for the user, the refresh token set as cookie; no call to the revocation
\* store.  [minted, store].  The variant is a login that ends the subject's
\* earlier sessions.
LoginIssueRevoking(sub, jti, t, st) ==
  [minted |-> {MintAccess(sub, jti + 1, t), MintRefresh(sub, jti + 2, t)},
   store |-> [k \in DOMAIN st \cup {x.jti : x \in {y \in issued : y.sub = sub}} |->
                IF k \in DOMAIN st THEN st[k] ELSE [perm |-> TRUE, at |-> 0]]]
LoginIssue(sub, jti, t, st) ==
  [minted |-> {MintAccess(sub, jti + 1, t), MintRefresh(sub, jti + 2, t)},
   store |-> st]

\* POST /auth/phone/login (phone_login); the path is on the gate's
\* allow-list.  up = the store answers verify_code's delete.
PhoneLogin(phone, code, up, createOk) ==
  LET req == Request("POST", PathPhoneLogin, NoToken, NoToken, NoToken, NoToken)
      g == Gate(req, TRUE, now, environment, jtiStore, users)
      ups == <<TRUE, up, TRUE>>
      v == VerifyCode(phone, code, otpStore, up)
      u == LoginUser(users, Owner(phone), createOk, "Failed to create user for phone login")
      i == LoginIssue(Owner(phone), nextJti, now, jtiStore)
      ok == v.ret /\ u.status = 200
  IN /\ Quiet
     /\ g.pass
     /\ ok => nextJti < 2 * MaxLogin
     /\ call' = [NoCall EXCEPT !.fn = "verify_code", !.phone = phone, !.code = code,
                                !.up = up, !.at = now, !.ret = v.ret]
     /\ otpStore' = v.otp
     /\ otpHist' = IF v.ret THEN Accept(otpHist, phone, up) ELSE otpHist
     /\ users' = IF v.ret THEN u.users ELSE users
     /\ issued' = IF ok THEN issued \cup i.minted ELSE issued
     /\ nextJti' = IF ok THEN nextJti + 2 ELSE nextJti
     /\ jtiStore' = IF ok THEN i.store ELSE jtiStore
     /\ resp' = IF ~v.ret
                  THEN Response("phone_login", req, ups, g, 400, "Invalid verification code", {})
                ELSE IF ~ok THEN Response("phone_login", req, ups, g, u.status, u.detail, {})
                ELSE Response("phone_login", req, ups, g, 200, "", i.minted)
     /\ UNCHANGED <<now, environment, loggedOut, rotated, inflight, rateStore, wxStore,
                    verifying, permanent, wxHist, validating, proc, issuing, issueHist>>

\* GET /auth/wechat/authorize (wechat_authorize): generate_state stores a new
\* random state, then build_qrconnect_url raises 500 when the app id or the
\* redirect URI is not configured.
WechatAuthorize(state, configured) ==
  LET req == Request("GET", PathWechatAuthorize, NoToken, NoToken, NoToken, NoToken)
      g == Gate(req, TRUE, now, environment, jtiStore, users)
  IN /\ Quiet
     /\ g.pass
     /\ state \notin DOMAIN wxHist
     /\ wxStore' = GenerateState(state, wxStore, now)
     /\ wxHist' = Generated(wxHist, state, now)
     /\ resp' = IF configured
                  THEN Response("wechat_authorize", req, AllUp, g, 307, "", {})
                  ELSE Response("wechat_authorize", req, AllUp, g, 500,
                                "WeChat OAuth not configured", {})
     /\ UNCHANGED <<now, environment, users, issued, nextJti, jtiStore, loggedOut, rotated,
                    inflight, otpStore, rateStore, verifying, otpHist, call, permanent, validating, proc, issuing, issueHist>>

\* exchange_code_for_openid(code) raises 500 ("unconfigured": app id or
\* secret not set) or 400 ("errcode": WeChat answered with an error or
\* without openid), or returns the openid WeChat gave.
Exchanges == {"unconfigured", "errcode"} \cup Openids
ExchangeFailure(xc) ==
  IF xc = "unconfigured" THEN [status |-> 500, detail |-> "WeChat OAuth not configured"]
  ELSE [status |-> 400, detail |-> "WeChat error"]

\* GET /auth/wechat/login (wechat_callback).  The route's path is not on the
\* gate's allow-list (the list names /auth/wechat/callback), so the request
\* passes the gate's token check first.  ups = <<the store answers the gate,
\* the store answers validate_state's delete, ->>.
WechatCallback(tok, state, xc, createOk, ups) ==
  LET req == Request("GET", PathWechatLogin, tok, NoToken, NoToken, NoToken)
      g == Gate(req, ups[1], now, environment, jtiStore, users)
      v == ValidateState(state, wxStore, ups[2])
      x == ExchangeFailure(xc)
      u == LoginUser(users, Owner(xc), createOk, "Failed to create user for WeChat login")
      i == LoginIssue(Owner(xc), nextJti, now, jtiStore)
      reached == g.pass /\ v.ret /\ xc \in Openids
      ok == reached /\ u.status = 200
  IN /\ Quiet
     /\ ok => nextJti < 2 * MaxLogin
     /\ call' = IF g.pass
                  THEN [NoCall EXCEPT !.fn = "validate_state", !.state = state,
                                      !.openid = IF v.ret /\ xc \in Openids THEN xc ELSE "",
                                      !.up = ups[2], !.at = now, !.ret = v.ret]
                  ELSE call
     /\ wxStore' = IF g.pass THEN v.wx ELSE wxStore
     /\ wxHist' = IF g.pass /\ v.ret THEN Validated(wxHist, state, ups[2]) ELSE wxHist
     /\ users' = IF reached THEN u.users ELSE users
     /\ issued' = IF ok THEN issued \cup i.minted ELSE issued
     /\ nextJti' = IF ok THEN nextJti + 2 ELSE nextJti
     /\ jtiStore' = IF ok THEN i.store ELSE jtiStore
     /\ resp' = IF ~g.pass THEN Rejected("wechat_callback", req, ups, g)
                ELSE IF ~v.ret
                  THEN Response("wechat_callback", req, ups, g, 400, "Invalid state", {})
                ELSE IF xc \notin Openids
                  THEN Response("wechat_callback", req, ups, g, x.status, x.detail, {})
                ELSE IF ~ok
                  THEN Response("wechat_callback", req, ups, g, u.status, u.detail, {})
                ELSE Response("wechat_callback", req, ups, g, 307, "", i.minted)
     /\ UNCHANGED <<now, environment, loggedOut, rotated, inflight, otpStore, rateStore,
                    verifying, otpHist, permanent, validating, proc, issuing, issueHist>>


AccessIssued == {t \in issued : t.use = "access"}
RefreshIssued == {t \in issued : t.use = "refresh"}
\* the refresh_token cookie a client sends along with the access token tok:
\* the one minted with it, or none
Cookie(tok) == {NoToken} \cup {r \in RefreshIssued : r.jti = tok.jti + 1}
\* revoke_by_jti is called on the jtis of the pair the login minted
AdminJtis == {1, 2}
CallJtis == 1..2
\* one store call of the handler fails, or none
HandlerUps == {AllUp, <<TRUE, FALSE, TRUE>>, <<TRUE, TRUE, FALSE>>}

\* The paths requested in SpecPaths: the public routes, the documentation,
\* protected routes, and near misses of the allow-list ("" = trailing slash,
\* "x" = a path parameter).
VisitPaths ==
  { PathLogin, PathRefresh, PathLogout, PathUsersMe,
    PathUsersMe \o <<"">>,
    ApiV1 \o <<"users", "signup">>,
    ApiV1 \o <<"utils", "health-check", "">>,
    ApiV1 \o <<"utils", "health-check">>,
    ApiV1 \o <<"auth", "reset-password", "">>,
    ApiV1 \o <<"auth", "reset-password">>,
    ApiV1 \o <<"auth", "password-recovery", "x">>,
    ApiV1 \o <<"auth", "password-recovery">>,
    ApiV1 \o <<"auth", "password-recovery-html-content", "x">>,
    ApiV1 \o <<"auth", "password-recovery-html-content">>,
    ApiV1 \o <<"private", "users", "">>,
    ApiV1 \o <<"private">>,
    ApiV1 \o <<"openapi.json">>,
    ApiV1 \o <<"openapi.json", "x">>,
    ApiV1 \o <<"docs">>,
    <<"docs">>, <<"docs", "oauth2-redirect">>, <<"redoc">> }
\* the tokens a client puts into the header, the query or the cookie
Sources == {NoToken} \cup issued \cup Forged

\* The gate: every kind of token, every store answer, users that disappear.
NextGate ==
  \/ Return
  \/ Tick(GateMaxSec)
  \/ \E u \in Subjects, s \in {"inactive", "absent"} : SetUserStatus(u, s)
  \/ \E u \in Subjects : PasswordLogin(u)
  \/ \E m \in {"GET", "OPTIONS"}, tok \in Pool \cup {NoToken}, ups \in Ups1 :
        ReadUserMe(m, tok, ups)
  \/ \E tok \in AccessIssued : Logout(tok, NoToken, AllUp)
  \/ \E tok \in AccessIssued, jti \in AdminJtis :
        RevokeByJti(tok, jti, 0, 0, AllUp, GateMaxSec)

SpecGate == Init(Environments) /\ [][NextGate]_vars

\* The session operations: login, refresh, and every writer of the store.
NextSession ==
  \/ Return
  \/ Tick(SessionMaxSec)
  \/ \E u \in Superusers : PasswordLogin(u)
  \/ \E tok \in AccessIssued : \E rtok \in Cookie(tok) : Logout(tok, rtok, AllUp)
  \/ \E tok \in AccessIssued : RevokeMe(tok, AllUp)
  \/ \E tok \in AccessIssued : \E rtok \in Cookie(tok), pw \in {"wrong", "ok"} :
        UpdatePasswordMe(tok, rtok, pw, AllUp)
  \/ \E rtok \in RefreshIssued : Refresh(rtok, AllUp, SessionMaxRefresh)
  \/ \E tok \in AccessIssued, jti \in AdminJtis, ttl \in 0..MaxAdminTTL, lag \in {0, 1} :
        RevokeByJti(tok, jti, ttl, lag, AllUp, SessionMaxSec)

Spec == Init({"production"}) /\ [][NextSession]_vars

\* Refresh rotation alone, and the gate on the tokens it mints.
NextRefresh ==
  \/ Return
  \/ Tick(RotationMaxSec)
  \/ \E u \in Superusers : PasswordLogin(u)
  \/ \E tok \in issued : ReadUserMe("GET", tok, AllUp)
  \/ \E rtok \in Pool \cup {NoToken}, ups \in HandlerUps : Refresh(rtok, ups, RotationMaxRefresh)

SpecRefresh == Init({"production"}) /\ [][NextRefresh]_vars

\* Refresh calls that interleave at their awaits.
NextRace ==
  \/ Return
  \/ Tick(RotationMaxSec)
  \/ \E u \in Superusers : PasswordLogin(u)
  \/ \E c \in Calls, rtok \in RefreshIssued, up2 \in BOOLEAN : RefreshBegin(c, rtok, up2)
  \/ \E c \in Calls, up3 \in BOOLEAN : RefreshFinish(c, up3, RotationMaxRefresh)

SpecRace == Init({"production"}) /\ [][NextRace]_vars

\* The service functions alone, on every jti and every exp_ts.
NextCall ==
  \/ Return
  \/ Tick(CallMaxSec)
  \/ \E jti \in CallJtis, hasExp \in BOOLEAN, expTs \in 0..((CallMaxSec + 1) * TicksPerSec) :
        CallRevokeJti(jti, hasExp, expTs)
  \/ \E jti \in CallJtis : CallIsJtiRevoked(jti)

SpecCall == Init({"production"}) /\ [][NextCall]_vars

\* the store answers the handler's first and second call, or not
EndUps == {<<TRUE, a, b>> : a \in BOOLEAN, b \in BOOLEAN}

\* The ends of a session: logout with any cookie and any store failure,
\* revoke/me and password change.
NextLogout ==
  \/ Return
  \/ Tick(RotationMaxSec)
  \/ \E u \in Superusers : PasswordLogin(u)
  \/ \E tok \in AccessIssued, rtok \in Pool \cup {NoToken}, ups \in EndUps :
        Logout(tok, rtok, ups)
  \/ \E tok \in AccessIssued : RevokeMe(tok, AllUp)
  \/ \E tok \in AccessIssued, rtok \in RefreshIssued \cup {NoToken} :
        UpdatePasswordMe(tok, rtok, "ok", AllUp)

SpecLogout == Init({"production"}) /\ [][NextLogout]_vars

\* Administrative revocation, with and without TTL, next to the session's own.
NextAdmin ==
  \/ Return
  \/ Tick(RotationMaxSec)
  \/ \E u \in Superusers : PasswordLogin(u)
  \/ \E tok \in AccessIssued, jti \in AdminJtis, ttl \in 0..MaxAdminTTL, lag \in {0, 1} :
        RevokeByJti(tok, jti, ttl, lag, AllUp, RotationMaxSec)
  \/ \E tok \in AccessIssued : \E rtok \in Cookie(tok) : Logout(tok, rtok, AllUp)

SpecAdmin == Init({"production"}) /\ [][NextAdmin]_vars

\* The one-time codes: issue and verify, one call at a time.
NextOtp ==
  \/ Return
  \/ Tick(OtpMaxSec)
  \/ \E phone \in Phones, code \in Codes : SendPhoneCode(phone, code)
  \/ \E phone \in Phones, code \in Codes, up \in BOOLEAN : CallVerifyCode(phone, code, up)

SpecOtp == Init({"local", "production"}) /\ [][NextOtp]_vars

\* verify_code calls that interleave at their awaits; the store answers.
NextOtpRace ==
  \/ Return
  \/ Tick(OtpMaxSec)
  \/ \E phone \in Phones, code \in Codes : SendPhoneCode(phone, code)
  \/ \E c \in Verifiers, phone \in Phones, code \in Codes : VerifyBegin(c, phone, code)
  \/ \E c \in Verifiers : VerifyFinish(c, TRUE)

SpecOtpRace == Init({"production"}) /\ [][NextOtpRace]_vars

\* issue_code calls that interleave at their awaits; the store answers.
NextIssueRace ==
  \/ Return
  \/ Tick(IssueMaxSec)
  \/ \E c \in Issuers, phone \in Phones : IssueBegin(c, phone, "c1")
  \/ \E c \in Issuers : IssueStore(c)
  \/ \E c \in Issuers : IssueFinish(c)

SpecIssueRace == Init({"production"}) /\ [][NextIssueRace]_vars

\* The OAuth states: generate and validate, one call at a time, the delete
\* answered or not.
NextState ==
  \/ Return
  \/ Tick(StateMaxSec)
  \/ \E state \in States : CallGenerateState(state)
  \/ \E state \in States, up \in BOOLEAN : CallValidateState(state, up)

SpecState == Init({"production"}) /\ [][NextState]_vars

\* validate_state calls that interleave at their awaits; the store answers.
NextStateRace ==
  \/ Return
  \/ Tick(StateMaxSec)
  \/ \E state \in States : CallGenerateState(state)
  \/ \E c \in Verifiers, state \in States : ValidateBegin(c, state)
  \/ \E c \in Verifiers : ValidateFinish(c, TRUE)

SpecStateRace == Init({"production"}) /\ [][NextStateRace]_vars

\* The life of the store handle: startups with the store reachable or not,
\* callers of get_redis at any time, shutdowns whose close() returns or
\* raises.
NextRedis ==
  \/ Return
  \/ \E reachable \in BOOLEAN : Startup(reachable)
  \/ UseRedis
  \/ ShutdownBegin
  \/ \E raises \in BOOLEAN : ShutdownFinish(raises)

SpecRedis == Init(Environments) /\ [][NextRedis]_vars

\* The logins by one-time code and by WeChat, before any code, state or
\* token expires, among revocations by the superuser and users that are
\* deactivated or deleted.
NextLogin ==
  \/ Return
  \/ \E s \in {"inactive", "absent"} : SetUserStatus(2, s)
  \/ \E phone \in Phones : SendPhoneCode(phone, "c1")
  \/ \E phone \in Phones, code \in Codes, createOk \in BOOLEAN :
       PhoneLogin(phone, code, TRUE, createOk)
  \/ \E state \in States, configured \in BOOLEAN : WechatAuthorize(state, configured)
  \/ \E tok \in {NoToken} \cup AccessIssued, state \in States, xc \in Exchanges,
        createOk \in BOOLEAN :
       WechatCallback(tok, state, xc, createOk, AllUp)
  \/ \E tok \in AccessIssued, jti \in AdminJtis :
       RevokeByJti(tok, jti, 0, 0, AllUp, SessionMaxSec)

SpecLogin == Init({"production"}) /\ [][NextLogin]_vars

\* The gate's exemptions and its token sources.
NextPaths ==
  \/ Return
  \/ \E u \in Subjects : PasswordLogin(u)
  \/ \E m \in {"GET", "OPTIONS"}, path \in VisitPaths, tok \in {NoToken} \cup AccessIssued :
        Visit(m, path, tok, NoToken, NoToken, AllUp)
  \/ \E hdr \in Sources, qry \in Sources, cky \in Sources :
        Visit("GET", PathUsersMe, hdr, qry, cky, AllUp)

SpecPaths == Init(Environments) /\ [][NextPaths]_vars

\* ------------------------------------------------------------------ claims
Ticks(sec) == sec * TicksPerSec
ExpiredAt(tok, t, leeway) == tok.exp # 0 /\ Ticks(tok.exp) <= t - Ticks(leeway)

\* What the gate's documentation asks of a request it lets through: the token
\* is signed and not expired (within the leeway), names a jti and a subject,
\* the jti has no entry in the store (or the store did not answer and the
\* mode is local), and the subject is an active user.
Authorized(tok, up, t, env, st, us) ==
  /\ tok # NoToken
  /\ tok.sig
  /\ ~ExpiredAt(tok, t, GateLeeway)
  /\ tok.jti # 0
  /\ tok.sub # 0
  /\ IF up THEN tok.jti \notin DOMAIN st ELSE env = "local"
  /\ us[tok.sub] = "active"

\* C1: for every request that is neither an OPTIONS pre-flight nor on the
\* allow-list, the gate invokes the handler exactly when the token is
\* Authorized in the state the request arrives in, and request.state.user is
\* that token's subject then and is never set otherwise.
C1_GateAdmitsOnlyAuthorized ==
  [][ (resp'.op # "idle" /\ resp'.checked) =>
        LET ok == Authorized(resp'.tok, resp'.ups[1], now, environment, jtiStore, users)
        IN /\ resp'.handler = ok
           /\ resp'.user = (IF ok THEN resp'.tok.sub ELSE 0) ]_vars

\* C1 witness: a checked request of the non-superuser was let through with
\* its subject attached.
C1_Witness ==
  /\ resp.op = "read" /\ resp.checked /\ resp.handler
  /\ resp.user = 2 /\ resp.tok.sub = 2 /\ resp.ups[1]

\* C2 (as claimed): a checked request bearing an access token for which
\* logout has returned 200, made before the token's exp with the store
\* answering, gets 401 "Token revoked" and no handler.
C2_LoggedOutTokenRejected ==
  [][ (resp'.op # "idle" /\ resp'.checked /\ resp'.tok \in loggedOut
       /\ resp'.ups[1] /\ now < Ticks(resp'.tok.exp)) =>
        (resp'.status = 401 /\ resp'.detail = "Token revoked" /\ ~resp'.handler) ]_vars

\* C4 (as claimed): when the entry of a jti that was revoked with the
\* token's own exp leaves the store, the gate already answers "Token expired"
\* to that token, and the refresh endpoint already refuses it.
C4_ExpiryNeverRevives ==
  [][ \A tok \in issued :
        (tok.jti \in DOMAIN jtiStore /\ tok.jti \notin DOMAIN jtiStore') =>
          /\ Gate(Request("GET", PathUsersMe, tok, NoToken, NoToken, NoToken), TRUE, now',
                  environment, jtiStore', users).detail = "Token expired"
          /\ RefreshResult(tok, now', jtiStore', TRUE, TRUE).status = 400 ]_vars

\* C6: when the store does not answer the gate's revocation check, then
\* outside local mode the response is 503 and neither the subject lookup nor
\* the handler runs; in local mode the check is skipped, whatever the store
\* holds, and the subject lookup decides.
ReachesRevocationCheck(r, t) ==
  r.op # "idle" /\ r.checked /\ r.tok # NoToken /\ r.tok.sig
  /\ ~ExpiredAt(r.tok, t, GateLeeway) /\ r.tok.jti # 0
C6_StoreUnreachable ==
  (ReachesRevocationCheck(resp, now) /\ ~resp.ups[1]) =>
    IF environment # "local"
      THEN resp.status = 503 /\ ~resp.handler /\ ~resp.dbCall /\ resp.user = 0
      ELSE /\ resp.status # 503
           /\ resp.detail # "Token revoked"
           /\ resp.tok.sub # 0 => /\ resp.dbCall
                                  /\ resp.handler = (users[resp.tok.sub] = "active")

\* C6 witness: in local mode, with the store not answering, a token whose
\* jti has an entry in the store was let through.
C6_Witness ==
  /\ environment = "local" /\ resp.op = "read" /\ resp.checked /\ ~resp.ups[1]
  /\ resp.tok.jti \in DOMAIN jtiStore /\ resp.handler /\ resp.status = 200

\* C3 (as claimed, for a token that has not expired and a store that
\* answers): a refresh call presenting a refresh token from which a pair has
\* already been minted fails with 401 "Token revoked" and mints nothing.
C3_RotatedTokenRejected ==
  [][ (resp'.op = "refresh" /\ resp'.ups = AllUp /\ resp'.rtok \in issued
       /\ Count(rotated, resp'.rtok.jti) >= 1 /\ now < Ticks(resp'.rtok.exp)) =>
        (resp'.status = 401 /\ resp'.detail = "Token revoked" /\ resp'.minted = {}) ]_vars

\* C5 (as claimed): the gate never lets a signed refresh token through (403
\* unless it has expired), and the refresh endpoint answers an access token
\* with an error, mints nothing and leaves the store as it was.
C5_TokenUseEnforced ==
  [][ /\ (resp'.op # "idle" /\ resp'.checked /\ resp'.tok.sig /\ resp'.tok.use = "refresh") =>
           /\ ~resp'.handler
           /\ ~ExpiredAt(resp'.tok, now, GateLeeway) => resp'.status = 403
      /\ (resp'.op = "refresh" /\ resp'.rtok.sig /\ resp'.rtok.use = "access") =>
           (resp'.status >= 400 /\ resp'.minted = {} /\ jtiStore' = jtiStore) ]_vars

\* C7: revoke_jti(jti, exp_ts) with exp_ts <= now returns False and leaves
\* the store as it was, so that is_jti_revoked(jti) is False after it when
\* jti had no entry before it.
C7_ExpiredRevokeIsNoOp ==
  [][ (call'.fn = "revoke_jti" /\ call'.hasExp /\ call'.expTs <= call'.at) =>
        /\ call'.ret = FALSE
        /\ jtiStore' = jtiStore
        /\ ~IsJtiRevoked(jtiStore, call'.jti) => ~IsJtiRevoked(jtiStore', call'.jti) ]_vars

\* C7 witness: revoke_jti was called, after time 0, with an exp_ts in the
\* past on a jti without entry, while another jti has one.
C7_Witness ==
  /\ call.fn = "revoke_jti" /\ call.hasExp /\ call.expTs < call.at /\ ~call.ret
  /\ call.jti \notin DOMAIN jtiStore /\ DOMAIN jtiStore # {}

\* C8 (as claimed): revoke_jti(jti, exp_ts) with exp_ts > now returns True
\* and is_jti_revoked(jti) is True right after it.
C8_FutureRevokeSucceeds ==
  (call.fn = "revoke_jti" /\ call.hasExp /\ call.expTs > call.at) =>
    (call.ret /\ IsJtiRevoked(jtiStore, call.jti))

\* C9 (as claimed): the entry revoke_jti writes for exp_ts has the TTL
\* ceil(exp_ts - now) seconds, so it is readable at least until exp_ts.
CeilSeconds(n) == (n + TicksPerSec - 1) \div TicksPerSec
C9_TTLIsCeiling ==
  (call.fn = "revoke_jti" /\ call.hasExp /\ call.ret) =>
    /\ jtiStore[call.jti].at = call.at + Ticks(CeilSeconds(call.expTs - call.at))
    /\ jtiStore[call.jti].at >= call.expTs

\* C10 (as claimed): every entry of the store has a TTL no longer than the
\* remaining validity of the token it names.
EntryBounded(st, tok) == ~st[tok.jti].perm /\ st[tok.jti].at <= Ticks(tok.exp)
SessionWriters == {"logout", "revoke_me", "password", "refresh"}
Written(st, st2) == {j \in DOMAIN st2 : j \notin DOMAIN st \/ st2[j] # st[j]}
Finishing == Cardinality(DOMAIN inflight') < Cardinality(DOMAIN inflight)
C11_RefreshRace ==
  [][ (Finishing /\ resp'.ups[3]) =>
        /\ resp'.status = 200
        /\ Cardinality(resp'.minted) = 2
        /\ resp'.minted \cap issued = {}
        /\ Count(rotated', resp'.rtok.jti) = Count(rotated, resp'.rtok.jti) + 1 ]_vars

\* C11 witness: one refresh token has produced two pairs although the first
\* call's revoke_jti wrote its entry: the second call had passed the check
\* before.
C11_Witness ==
  /\ resp.op = "refresh" /\ resp.status = 200
  /\ Count(rotated, resp.rtok.jti) = 2
  /\ resp.rtok.jti \in DOMAIN jtiStore

\* C12 (as claimed): whenever a refresh call returns a new pair, the jti of
\* the token presented has an entry in the store at that moment; and a
\* refresh call that fails returns no token.
C12_RotationAllOrNothing ==
  [][ resp'.op = "refresh" =>
        /\ resp'.minted # {} => IsJtiRevoked(jtiStore', resp'.rtok.jti)
        /\ resp'.status # 200 => (resp'.minted = {} /\ issued' = issued) ]_vars

\* C13: a refresh call presenting a refresh token that decodes (signed, not
\* expired, token_use refresh, with jti, exp and sub) and whose jti has an
\* entry in the store, the store answering, gets 401 "Token revoked" (not the
\* 400 of an invalid token), mints nothing and leaves the store as it was.
C13_RevokedRefreshRejected ==
  [][ (/\ resp'.op = "refresh"
       /\ resp'.rtok.sig /\ resp'.rtok.use = "refresh"
       /\ resp'.rtok.jti # 0 /\ resp'.rtok.sub # 0 /\ resp'.rtok.exp # 0
       /\ now < Ticks(resp'.rtok.exp)
       /\ resp'.ups[2]
       /\ resp'.rtok.jti \in DOMAIN jtiStore) =>
        /\ resp'.status = 401 /\ resp'.detail = "Token revoked"
        /\ resp'.minted = {} /\ issued' = issued
        /\ jtiStore' = jtiStore ]_vars

\* C13 witness: an issued refresh token, rotated before, was presented again
\* and refused as revoked.
C13_Witness ==
  /\ resp.op = "refresh" /\ resp.status = 401 /\ resp.detail = "Token revoked"
  /\ resp.rtok \in issued /\ Count(rotated, resp.rtok.jti) = 1
  /\ resp.rtok.jti \in DOMAIN jtiStore

\* C14: the gate decodes first, asks the store second and looks the subject
\* up last.  A token that fails to decode causes no store call and no
\* lookup; a token that is revoked, or whose revocation cannot be
\* established outside local mode, causes no lookup; the lookup never
\* happens without the store call.  So a token both expired and revoked is
\* answered "Token expired", and a revoked token of a missing subject is
\* answered 401, not 404.
C14_GateOrder ==
  [][ (resp'.op # "idle" /\ resp'.checked /\ resp'.tok # NoToken) =>
        LET tok == resp'.tok
            undecodable == ~tok.sig \/ ExpiredAt(tok, now, GateLeeway)
            revoked == resp'.ups[1] /\ tok.jti \in DOMAIN jtiStore
            unknown == ~resp'.ups[1] /\ environment # "local"
        IN /\ undecodable => ~resp'.storeCall /\ ~resp'.dbCall
           /\ (~undecodable /\ tok.jti # 0 /\ (revoked \/ unknown)) =>
                 resp'.storeCall /\ ~resp'.dbCall
           /\ resp'.dbCall => resp'.storeCall
           /\ (tok.sig /\ ExpiredAt(tok, now, GateLeeway) /\ revoked) =>
                 resp'.status = 401 /\ resp'.detail = "Token expired"
           /\ (~undecodable /\ revoked /\ tok.sub # 0 /\ users[tok.sub] = "absent") =>
                 resp'.status = 401 /\ resp'.detail = "Token revoked" ]_vars

\* C14 witness: an issued token that is expired and has an entry in the
\* store was answered "Token expired" with no store call.
C14_Witness ==
  /\ resp.op = "read" /\ resp.checked /\ resp.tok \in issued /\ resp.ups[1]
  /\ ExpiredAt(resp.tok, now, GateLeeway)
  /\ resp.tok.jti \in DOMAIN jtiStore
  /\ resp.detail = "Token expired" /\ ~resp.storeCall

\* C15: a checked request whose token is validly signed but expired (beyond
\* the leeway) gets 401 "Token expired"; one whose token fails to decode for
\* any other reason gets 403 "Could not validate credentials"; neither
\* reaches the handler, and neither answer is given in the other case.
C15_ExpiredVersusInvalid ==
  [][ (resp'.op # "idle" /\ resp'.checked /\ resp'.tok # NoToken) =>
        LET tok == resp'.tok
            expired == tok.sig /\ ExpiredAt(tok, now, GateLeeway)
        IN /\ expired <=> (resp'.status = 401 /\ resp'.detail = "Token expired")
           /\ ~tok.sig <=> (resp'.status = 403 /\
                             resp'.detail = "Could not validate credentials")
           /\ (expired \/ ~tok.sig) => ~resp'.handler /\ resp'.user = 0 ]_vars

\* C15 witness: an issued token past its expiry and the leeway was answered
\* 401 "Token expired".
C15_Witness ==
  /\ resp.op = "read" /\ resp.checked /\ resp.tok \in issued
  /\ ExpiredAt(resp.tok, now, GateLeeway)
  /\ resp.status = 401 /\ resp.detail = "Token expired" /\ ~resp.handler

\* C16: a checked request whose token decodes but carries no jti gets 401
\* "Invalid token id" with no store call and no subject lookup, in every
\* environment and whether or not the store answers.
C16_MissingJti ==
  [][ (resp'.op # "idle" /\ resp'.checked /\ resp'.tok # NoToken
       /\ resp'.tok.sig /\ ~ExpiredAt(resp'.tok, now, GateLeeway)
       /\ resp'.tok.jti = 0) =>
        /\ resp'.status = 401 /\ resp'.detail = "Invalid token id"
        /\ ~resp'.handler /\ ~resp'.storeCall /\ ~resp'.dbCall ]_vars

\* C16 witness: in local mode with the store down, a signed token without jti
\* of an active subject was answered 401 "Invalid token id".
C16_Witness ==
  /\ resp.op = "read" /\ resp.checked /\ resp.tok # NoToken
  /\ resp.tok.sig /\ resp.tok.jti = 0 /\ resp.tok.sub # 0
  /\ users[resp.tok.sub] = "active"
  /\ environment = "local" /\ ~resp.ups[1]
  /\ resp.status = 401 /\ resp.detail = "Invalid token id"

\* C18: a checked request whose token passes the decoding, the jti test, the
\* revocation test and the subject test gets 404 "User not found" when the
\* subject is not in the database and 400 "Inactive user" when it is not
\* active; in both cases no identity is attached and the handler is not
\* invoked.
C18_MissingOrInactiveSubject ==
  [][ (resp'.op # "idle" /\ resp'.checked /\ resp'.tok # NoToken
       /\ resp'.tok.sig /\ ~ExpiredAt(resp'.tok, now, GateLeeway)
       /\ resp'.tok.jti # 0 /\ resp'.tok.sub # 0
       /\ (IF resp'.ups[1] THEN resp'.tok.jti \notin DOMAIN jtiStore
                           ELSE environment = "local")) =>
        LET s == users[resp'.tok.sub]
        IN /\ s = "absent" =>
                /\ resp'.status = 404 /\ resp'.detail = "User not found"
                /\ resp'.user = 0 /\ ~resp'.handler
           /\ s = "inactive" =>
                /\ resp'.status = 400 /\ resp'.detail = "Inactive user"
                /\ resp'.user = 0 /\ ~resp'.handler ]_vars

\* C18 witness: an issued, unrevoked token of a deactivated user was answered
\* 400 "Inactive user".
C18_Witness ==
  /\ resp.op = "read" /\ resp.checked /\ resp.tok \in issued /\ resp.ups[1]
  /\ resp.tok.jti \notin DOMAIN jtiStore
  /\ users[resp.tok.sub] = "inactive"
  /\ resp.status = 400 /\ resp.detail = "Inactive user" /\ ~resp.handler

\* The first of the three sources that holds a token.
FirstPresent(req) ==
  CHOOSE t \in {req.hdr, req.qry, req.cky} :
    \/ req.hdr # NoToken /\ t = req.hdr
    \/ req.hdr = NoToken /\ req.qry # NoToken /\ t = req.qry
    \/ req.hdr = NoToken /\ req.qry = NoToken /\ t = req.cky

\* C17: on a checked request the gate judges the token of the first source
\* that holds one, in the order Authorization header, access_token query
\* parameter, access_token cookie: the handler is invoked exactly when that
\* token is Authorized, whatever the later sources hold, and when no source
\* holds a token the answer is 401 "Not authenticated" and the handler is not
\* invoked.
C17_TokenSourceOrder ==
  [][ (resp'.op = "visit" /\ resp'.checked) =>
        LET first == FirstPresent(resp'.req)
            ok == Authorized(first, resp'.ups[1], now, environment, jtiStore, users)
        IN /\ resp'.handler = ok
           /\ resp'.user = (IF ok THEN first.sub ELSE 0)
           /\ first = NoToken =>
                 /\ resp'.status = 401 /\ resp'.detail = "Not authenticated"
                 /\ ~resp'.storeCall /\ ~resp'.dbCall
           /\ (first # NoToken /\ ~first.sig) => resp'.status = 403 ]_vars

\* C17 witness: with no header, a valid token in the query and a forged one
\* in the cookie, the request reached the handler as the query token's
\* subject.
C17_Witness ==
  /\ resp.op = "visit" /\ resp.checked /\ resp.handler
  /\ resp.req.hdr = NoToken
  /\ resp.req.qry \in issued /\ resp.user = resp.req.qry.sub
  /\ resp.req.cky \in Forged

\* The requested paths that are on the allow-list in environment env,
\* read off the lists of middleware/auth.py and main.py path by path.
ExemptPaths(env) ==
  { PathLogin, PathRefresh,
    ApiV1 \o <<"users", "signup">>,
    ApiV1 \o <<"utils", "health-check", "">>,
    ApiV1 \o <<"auth", "reset-password", "">>,
    ApiV1 \o <<"auth", "password-recovery", "x">>,
    ApiV1 \o <<"auth", "password-recovery">>,
    ApiV1 \o <<"auth", "password-recovery-html-content", "x">>,
    ApiV1 \o <<"auth", "password-recovery-html-content">>,
    ApiV1 \o <<"openapi.json">>,
    <<"docs">>, <<"docs", "oauth2-redirect">>, <<"redoc">> }
  \cup (IF env = "local" THEN {ApiV1 \o <<"private", "users", "">>} ELSE {})

\* C19: a request is exempt from the gate's checks exactly when it is an
\* OPTIONS request or its path is on the allow-list.  An exempt request goes
\* to the handler with no identity attached, no store call and no subject
\* lookup; every other request is checked, and without a token it is
\* answered 401 and does not reach the handler.
C19_OnlyAllowListBypasses ==
  [][ resp'.op = "visit" =>
        LET exempt == resp'.req.method = "OPTIONS"
                      \/ resp'.req.path \in ExemptPaths(environment)
        IN /\ resp'.checked = ~exempt
           /\ exempt => /\ resp'.handler /\ resp'.user = 0
                         /\ ~resp'.storeCall /\ ~resp'.dbCall
           /\ (~exempt /\ FirstPresent(resp'.req) = NoToken) =>
                 ~resp'.handler /\ resp'.status = 401 ]_vars

\* C19 witness: outside local mode a GET to the private prefix without a
\* token was checked and answered 401.
C19_Witness ==
  /\ resp.op = "visit" /\ resp.req.method = "GET"
  /\ resp.req.path = ApiV1 \o <<"private", "users", "">>
  /\ environment = "production"
  /\ resp.checked /\ ~resp.handler /\ resp.status = 401

\* C20 (as claimed): when logout returns 200 for a request whose
\* refresh_token cookie is a valid, unexpired token, the store afterwards
\* holds an entry for the access token's jti and one for the refresh
\* token's jti, each ending no later than its token.
C20_LogoutRevokesBoth ==
  [][ (resp'.op = "logout" /\ resp'.status = 200
       /\ resp'.rtok # NoToken /\ Usable(resp'.rtok, now)) =>
        \A tok \in {resp'.tok, resp'.rtok} :
          /\ IsJtiRevoked(jtiStore', tok.jti)
          /\ EntryBounded(jtiStore', tok) ]_vars

\* C21 (as claimed): when logout is called with a usable access token, the
\* store answering, and a refresh_token cookie that does not decode
\* (bad signature or expired), logout returns 200 and the access token's jti
\* has an entry afterwards; when the access token does not decode or the
\* write of its entry fails, the response is an error.
C21_UndecodableCookieSwallowed ==
  [][ (resp'.op = "logout" /\ resp'.handler) =>
        /\ (Usable(resp'.tok, now) /\ resp'.ups[2]
            /\ resp'.rtok # NoToken /\ Decode(resp'.rtok, now, 0) # "ok") =>
              /\ resp'.status = 200
              /\ IsJtiRevoked(jtiStore', resp'.tok.jti)
        /\ (~Usable(resp'.tok, now) \/ ~resp'.ups[2]) => resp'.status >= 400 ]_vars

\* At least one whole second of the token's life is left at tick t.
SecondLeft(tok, t) == Usable(tok, t) /\ Remaining(Ticks(tok.exp), t) >= 1

C23_PasswordChangeRevokes ==
  [][ (resp'.op = "password" /\ resp'.status = 200) =>
        /\ IsJtiRevoked(jtiStore', resp'.tok.jti)
        /\ resp'.rtok \in issued => IsJtiRevoked(jtiStore', resp'.rtok.jti) ]_vars

\* C24: logout, revoke/me and password change write and remove no entry
\* other than those of the jtis presented in the request, so every other
\* issued token is authorized after the request exactly when it was before.
Presented(r) == {r.tok.jti, r.rtok.jti}
C24_OnlyPresentedRevoked ==
  [][ resp'.op \in {"logout", "revoke_me", "password"} =>
        /\ \A j \in (DOMAIN jtiStore \cup DOMAIN jtiStore') \ Presented(resp') :
              /\ j \in DOMAIN jtiStore /\ j \in DOMAIN jtiStore'
              /\ jtiStore'[j] = jtiStore[j]
        /\ \A other \in issued :
              other.jti \notin Presented(resp') =>
                (Authorized(other, TRUE, now, environment, jtiStore', users)
                   <=> Authorized(other, TRUE, now, environment, jtiStore, users)) ]_vars

\* C24 witness: revoke/me has written the entry of the presented access
\* token while the refresh token minted with it, still valid, has none.
C24_Witness ==
  /\ resp.op = "revoke_me" /\ resp.status = 200
  /\ IsJtiRevoked(jtiStore, resp.tok.jti)
  /\ \E r \in RefreshIssued :
        /\ r.jti = resp.tok.jti + 1 /\ Usable(r, now)
        /\ ~IsJtiRevoked(jtiStore, r.jti)

\* C25: a phone_login or wechat_callback request that succeeds returns
\* exactly one access token and one refresh token, whose jtis differ and are
\* carried by no token issued before, and adds just these two to the issued
\* tokens; whether it succeeds or not, it leaves the revocation store as it
\* was, so no earlier token of the subject becomes revoked.
LoginOps == {"phone_login", "wechat_callback"}
LoginSucceeded(r) == r.op \in LoginOps /\ r.status \in {200, 307}
C25_LoginIssuesOnePair ==
  [][ resp'.op \in LoginOps =>
        /\ jtiStore' = jtiStore
        /\ ~LoginSucceeded(resp') => (resp'.minted = {} /\ issued' = issued)
        /\ LoginSucceeded(resp') =>
             /\ Cardinality(resp'.minted) = 2
             /\ \E a, r \in resp'.minted :
                  /\ a.use = "access" /\ r.use = "refresh"
                  /\ a.jti # r.jti /\ a.sub = r.sub
             /\ \A m \in resp'.minted : \A k \in issued : k.jti # m.jti
             /\ issued' = issued \cup resp'.minted ]_vars

\* C25 witness: a WeChat login succeeded for a subject who holds a token from
\* an earlier phone login that is still not revoked, while the store keeps
\* the entry of a logged-out token.
C25_Witness ==
  /\ resp.op = "wechat_callback" /\ resp.status = 307
  /\ jtiStore # << >>
  /\ \E m \in resp.minted : \E k \in issued \ resp.minted :
       k.sub = m.sub /\ ~IsJtiRevoked(jtiStore, k.jti)

\* C26 (as claimed): a jti for which an entry without TTL was written is
\* revoked in every later state.
C26_PermanentForever ==
  \A j \in permanent : IsJtiRevoked(jtiStore, j)

\* C26 (amended): no step removes an entry whose TTL has not elapsed, and an
\* entry without TTL stays in the store unless the same step is a revocation
\* of that very jti, which replaces it.
C26_LeavesOnlyByExpiry ==
  [][ \A j \in DOMAIN jtiStore :
        /\ j \notin DOMAIN jtiStore' => (~jtiStore[j].perm /\ jtiStore[j].at <= now')
        /\ (j \in DOMAIN jtiStore' /\ jtiStore'[j] # jtiStore[j]) =>
              /\ resp'.op \in SessionWriters \cup {"revoke_jti"}
              /\ resp'.status = 200 ]_vars

\* C26 witness: an entry without TTL has outlived the token it names.
C26_Witness ==
  \E tok \in issued :
    /\ IsJtiRevoked(jtiStore, tok.jti) /\ jtiStore[tok.jti].perm
    /\ now >= Ticks(tok.exp)

\* C27 (as claimed): when revoke_jti is called for a jti that has an entry
\* with a TTL, with an exp_ts no later than the end of that entry (hence no
\* later than the exp_ts that wrote it), the jti has an entry afterwards and
\* that entry ends no earlier than the one it had.
C27_RepeatedRevokeSafe ==
  [][ (call'.fn = "revoke_jti" /\ call'.hasExp
       /\ IsJtiRevoked(jtiStore, call'.jti) /\ ~jtiStore[call'.jti].perm
       /\ call'.expTs <= jtiStore[call'.jti].at) =>
        /\ IsJtiRevoked(jtiStore', call'.jti)
        /\ jtiStore'[call'.jti].perm \/ jtiStore'[call'.jti].at >= jtiStore[call'.jti].at ]_vars

\* C28: an issue_code call for a phone number made less than
\* rate_limit_seconds after the last successful one for that number fails
\* (429 from send_phone_code) and leaves the stored code and the rate marker
\* as they were; a call made when no issue succeeded in the last
\* rate_limit_seconds succeeds and stores its code.
InWindow(h, t) == h.issuedAt >= 0 /\ t < h.issuedAt + Ticks(OtpRateLimit)
C28_RateLimit ==
  [][ call'.fn = "issue_code" =>
        IF InWindow(otpHist[call'.phone], now)
          THEN /\ ~call'.ret /\ resp'.status = 429
               /\ otpStore' = otpStore /\ rateStore' = rateStore
          ELSE /\ call'.ret /\ resp'.status = 200
               /\ otpStore'[call'.phone].val = call'.code
               /\ call'.phone \in DOMAIN rateStore' ]_vars

\* C28 witness: a second request, later in the window and with another
\* code drawn, was answered 429 and the first code is still the stored one.
C28_Witness ==
  /\ call.fn = "issue_code" /\ ~call.ret /\ resp.status = 429
  /\ now > otpHist[call.phone].issuedAt
  /\ call.phone \in DOMAIN otpStore
  /\ otpStore[call.phone].val = otpHist[call.phone].code
  /\ otpStore[call.phone].val # call.code

\* C29: verify_code returns True exactly when the presented code is the one
\* stored for the phone number; when it returns True and the store answers
\* the delete, the entry is gone, and from then until the next issue every
\* verify_code with that code returns False; when it returns False the
\* stored code is left in place.
C29_VerifyOnce ==
  [][ call'.fn = "verify_code" =>
        LET p == call'.phone
            match == p \in DOMAIN otpStore /\ otpStore[p].val = call'.code
        IN /\ call'.ret = match
           /\ (call'.ret /\ call'.up) => p \notin DOMAIN otpStore'
           /\ (otpHist[p].deleted /\ call'.code = otpHist[p].code) => ~call'.ret
           /\ ~call'.ret => otpStore' = otpStore ]_vars

\* C29 witness: the code issued for a number, verified and deleted once, was
\* presented again within its TTL and refused.
C29_Witness ==
  /\ call.fn = "verify_code" /\ ~call.ret
  /\ otpHist[call.phone].deleted /\ otpHist[call.phone].accepted = 1
  /\ call.code = otpHist[call.phone].code
  /\ now < otpHist[call.phone].issuedAt + Ticks(OtpTTL)

\* C30 (as claimed): of the verify_code calls presenting one issued code, at
\* most one returns True, however they interleave.
C30_SingleUse ==
  \A p \in Phones : otpHist[p].accepted <= 1

\* C31: the store holds at most one code per phone number, the one of the
\* last successful issue_code for that number: a successful issue_code
\* leaves its own code as the stored one, whatever was stored before, and
\* verify_code returns True for that code only.
C31_OneActiveCode ==
  [][ /\ \A p \in DOMAIN otpStore' : otpStore'[p].val = otpHist'[p].code
      /\ (call'.fn = "issue_code" /\ call'.ret) =>
            StoredCode(call'.phone, otpStore') = call'.code
      /\ (call'.fn = "verify_code" /\ call'.ret) =>
            call'.code = otpHist[call'.phone].code ]_vars

\* C31 witness: a successful issue_code replaced another code that was
\* still stored for the number.
C31_Witness ==
  /\ call.fn = "issue_code" /\ call.ret
  /\ call.old # "" /\ call.old # call.code
  /\ StoredCode(call.phone, otpStore) = call.code

\* C32: validate_state returns True exactly for a state that generate_state
\* returned less than STATE_TTL_SECONDS ago and that no earlier validate_state
\* call has deleted; when it returns True and the store answers the delete,
\* the entry is gone; a state never generated, one whose TTL has elapsed and
\* one already validated and deleted all give False, and a False call leaves
\* the store as it was.
FreshState(h, s, t) ==
  s \in DOMAIN h /\ ~h[s].deleted /\ t < h[s].at + Ticks(StateTTL)
C32_ValidateOnce ==
  [][ call'.fn = "validate_state" =>
        /\ call'.ret = FreshState(wxHist, call'.state, now)
        /\ (call'.ret /\ call'.up) => call'.state \notin DOMAIN wxStore'
        /\ ~call'.ret => wxStore' = wxStore ]_vars

\* C32 witness: a state, validated once within its TTL and deleted, was
\* presented again within its TTL and refused.
C32_Witness ==
  /\ call.fn = "validate_state" /\ ~call.ret
  /\ call.state \in DOMAIN wxHist
  /\ wxHist[call.state].deleted /\ wxHist[call.state].accepted = 1
  /\ now < wxHist[call.state].at + Ticks(StateTTL)

\* C33 (as claimed): of the validate_state calls presenting one generated
\* state, at most one returns True, however they interleave and whether or
\* not the store answers the delete.
C33_StateSingleUse ==
  \A s \in DOMAIN wxHist : wxHist[s].accepted <= 1

\* C34: get_redis returns the handle held in _redis, creating one only when
\* none is held; while a handle is held no step replaces it by another, and
\* only close_redis unsets it; init_redis raises exactly when the store is
\* unreachable and ENVIRONMENT is not "local"; after close_redis, whether
\* close() returned or raised, no handle is held.
C34_StoreHandleSingleton ==
  [][ /\ proc.redis # 0 =>
            /\ proc'.redis \in {proc.redis, 0}
            /\ proc'.made = proc.made
            /\ proc'.redis = 0 => call'.fn = "close_redis"
      /\ proc.redis = 0 => proc'.made \in {proc.made, proc.made + 1}
      /\ proc'.made # proc.made => proc'.redis = proc'.made
      /\ call'.fn \in {"get_redis", "init_redis"} =>
            call'.handle = proc'.redis /\ proc'.redis # 0
      /\ call'.fn = "init_redis" =>
            (call'.ret <=> (call'.up \/ environment = "local"))
      /\ call'.fn = "close_redis" => proc'.redis = 0 ]_vars

\* C34 witness: in a second life of the application close() has raised, and
\* no handle is held.
C34_Witness ==
  /\ call.fn = "close_redis" /\ ~call.ret
  /\ call.handle = 2 /\ proc.made = 2
  /\ proc.redis = 0 /\ proc.phase = "down"

\* C35 (as claimed): a request without token to one of the login entry
\* points (send_phone_code, phone_login, wechat_authorize, wechat_callback,
\* refresh_token), at the path where the router registers it, is never
\* answered 401 "Not authenticated" by the gate.
LoginEntryOps == {"send_code", "phone_login", "wechat_authorize", "wechat_callback", "refresh"}
C35_LoginEntryPointsOpen ==
  (resp.op \in LoginEntryOps /\ resp.tok = NoToken) =>
    ~(resp.status = 401 /\ resp.detail = "Not authenticated")

\* C36: phone_login returns tokens only when verify_code returned True for
\* the presented number and code, which were the stored ones, and
\* wechat_callback only when validate_state returned True for a stored state
\* and the exchange gave an openid; in both the tokens are those of the user
\* of that number or openid, who is active; every other response returns no
\* token and mints none.
C36_MintOnlyAfterVerification ==
  [][ resp'.op \in LoginOps =>
        /\ (resp'.op = "phone_login" /\ resp'.minted # {}) =>
              /\ call'.fn = "verify_code" /\ call'.ret
              /\ VerifyMatch(call'.phone, call'.code, otpStore)
              /\ \A m \in resp'.minted : m.sub = Owner(call'.phone)
        /\ (resp'.op = "wechat_callback" /\ resp'.minted # {}) =>
              /\ call'.fn = "validate_state" /\ call'.ret
              /\ call'.state \in DOMAIN wxStore
              /\ call'.openid \in Openids
              /\ \A m \in resp'.minted : m.sub = Owner(call'.openid)
        /\ \A m \in resp'.minted : users[m.sub] # "inactive" /\ users'[m.sub] = "active"
        /\ ~LoginSucceeded(resp') => (resp'.minted = {} /\ issued' = issued)
        /\ issued' \ issued = resp'.minted ]_vars

\* C36 witness: phone_login was given the stored code of an inactive user's
\* number: verify_code returned True and the answer is 400 without tokens.
C36_Witness ==
  /\ resp.op = "phone_login" /\ resp.status = 400 /\ resp.detail = "Inactive user"
  /\ call.fn = "verify_code" /\ call.ret
  /\ users[Owner(call.phone)] = "inactive"
  /\ resp.minted = {}

\* C37 (as claimed): when verify_code has returned True, the code entry of
\* that phone number is no longer in the store, so the same code cannot be
\* verified again.
C37_TrueOnlyWhenRemoved ==
  (call.fn = "verify_code" /\ call.ret) => call.phone \notin DOMAIN otpStore

\* C38 (as claimed): however issue_code calls interleave, of the calls for
\* one phone number started within one rate-limit window at most one
\* succeeds, and a stored code was written by a call that has set the rate
\* marker.
C38_RateLimitUnderRaces ==
  \A p \in Phones :
    /\ Len(issueHist[p].starts) = 2 =>
          \/ issueHist[p].starts[2] - issueHist[p].starts[1] >= Ticks(OtpRateLimit)
          \/ issueHist[p].starts[1] - issueHist[p].starts[2] >= Ticks(OtpRateLimit)
    /\ p \in DOMAIN otpStore => issueHist[p].marked

====
